---- MODULE Spec2Model ----
(***************************************************************************)
(* CleanRoute backend: the telemetry ingestion handler (mqtt_ingest.py),   *)
(* the command dispatcher (mqtt_commands.py) and the registry operations   *)
(* they call (db.py), as one state machine.                                *)
(*                                                                         *)
(* An optional value (Python None, SQL NULL, an absent JSON key) is a      *)
(* sequence of length at most one: << >> is None, <<v>> is the value v.    *)
(* Instants are integers (hours of one day).  The columns batt_v, temp_c,  *)
(* user_name, user_phone, wifi_ssid and registered_at are copied verbatim  *)
(* by the code and read by no operation modelled here; they are left out.  *)
(***************************************************************************)
EXTENDS Integers, Sequences, FiniteSets, TLC

\* ------------------------------------------------------------------ bounds
\* Number of inbound messages delivered to on_message in one behaviour.
MaxMsgs == 2
\* Number of request-path operations started in one behaviour.
MaxOps == 2
\* Number of register_device calls in one behaviour.
MaxRegistrations == 2
\* Number of get_cursor blocks entered in one behaviour.
MaxBlocks == 2
\* Number of delete_bin calls in one behaviour.
MaxPurges == 1

\* ----------------------------------------------------------- configuration
\* Plain MQTT; TLS with the CA certificate in place; TLS with the file missing.
Configs ==
    { [use_tls |-> FALSE, ca_cert |-> FALSE],
      [use_tls |-> TRUE, ca_cert |-> TRUE],
      [use_tls |-> TRUE, ca_cert |-> FALSE] }

\* ----------------------------------------------------------------- options
None == << >>
Some(v) == <<v>>
IsNone(o) == o = << >>
Val(o) == o[1]

\* ------------------------------------------------------------ input domains
BinIds == {"B1", "B2"}

\* Topics as their "/"-separated segments.
Topics ==
    { <<"cleanroute", "bins", "B1", "telemetry">>,
      <<"cleanroute", "bins", "B2", "telemetry">>,
      <<"cleanroute", "bins", "", "telemetry">>,
      <<"cleanroute", "bins">> }

\* Two spellings of 10:00 UTC, one of 09:00 UTC, and one string that is no date.
TsStrings == {"10:00Z", "10:00+00:00", "09:00Z", "not-a-date"}

FillValues == {0 - 1, 0, 100, 101}

PayloadBinIds == {None, Some(""), Some("B1"), Some("B2")}
PayloadTs == {None} \cup {Some(s) : s \in TsStrings}
PayloadFill == {None} \cup {Some(f) : f \in FillValues}
PayloadEmptied == {None, Some(0), Some(1)}
\* A device reports its position as a pair, or not at all.
PayloadPos == { [lat |-> None, lon |-> None], [lat |-> Some(7), lon |-> Some(80)] }

\* The payload of an undecodable message: json.loads raises, so no field is read.
NoPayload ==
    [bin_id |-> None, ts |-> None, fill_pct |-> None, emptied |-> None,
     lat |-> None, lon |-> None]

\* A well-formed report of bin B1, the message the others are variations of.
BasePayload ==
    [bin_id |-> Some("B1"), ts |-> Some("10:00Z"), fill_pct |-> Some(50),
     emptied |-> None, lat |-> None, lon |-> None]

\* The delivered messages: every pairing of topic and payload bin_id; every
\* fill_pct; every combination of ts, emptied and position for either bin;
\* and an undecodable payload on every topic.
Messages ==
    { [topic |-> tp, decodable |-> TRUE,
       payload |-> [BasePayload EXCEPT !.bin_id = b]] :
        tp \in Topics, b \in PayloadBinIds }
    \cup { [topic |-> <<"cleanroute", "bins", "B1", "telemetry">>, decodable |-> TRUE,
            payload |-> [BasePayload EXCEPT !.fill_pct = f]] : f \in PayloadFill }
    \cup { [topic |-> <<"cleanroute", "bins", "B1", "telemetry">>, decodable |-> TRUE,
            payload |-> [BasePayload EXCEPT !.bin_id = b, !.ts = t, !.emptied = e,
                                            !.lat = p.lat, !.lon = p.lon]] :
            b \in {None, Some("B2")}, t \in PayloadTs, e \in PayloadEmptied,
            p \in PayloadPos }
    \cup { [topic |-> tp, decodable |-> FALSE, payload |-> NoPayload] : tp \in Topics }

\* ------------------------------------------------------------------- state
VARIABLES
    bins,            \* table bins: bin_id -> row
    telemetry,       \* table telemetry, in insertion order
    commands_log,    \* table commands_log, in insertion order
    message_count,   \* mqtt_ingest.message_count
    command_client,  \* mqtt_commands.command_client
    sleep_default,   \* the schema's default for bins.sleep_mode
    ingest,          \* the ingestion worker: position in on_message, its locals
    delivered,       \* messages delivered so far
    req,             \* the request path: position in the running operation
    now,             \* the registry clock NOW(): operations started so far
    registered,      \* register_device calls so far
    alerts,          \* table alerts, in insertion order
    config,          \* config.MQTT_USE_TLS and whether config.MQTT_CA_CERT exists
    connects,        \* the connect() calls made so far: <<client, tls>>
    mqtt,            \* mqtt_ingest: mqtt_client, mqtt_connected, the network loop
    zone,            \* the last call of zones.assign_to_district_and_zone
    cursor,          \* the running db.get_cursor block
    purge,           \* the running db.delete_bin call
    peer             \* a second request thread, running sleep_bin

vars ==
    <<bins, telemetry, commands_log, message_count, command_client,
      sleep_default, ingest, delivered, req, now, registered,
      alerts, config, connects, mqtt, zone, cursor, purge, peer>>

\* What neither on_message nor the dispatcher writes.
outside == <<alerts, config, connects, mqtt, zone, cursor, purge, peer>>

registry == <<bins, telemetry, commands_log>>

\* ------------------------------------------------------------ pure helpers
\* topic_parts[2] if len(topic_parts) >= 3 else None
TopicBinId(topic) == IF Len(topic) >= 3 THEN Some(topic[3]) ELSE None

\* Python truthiness of an optional string: None and "" are falsy.
Truthy(o) == ~IsNone(o) /\ Val(o) # ""

\* Mutant: the topic's segment is preferred to the payload's field.
EffectiveBinIdTopicFirst(m) ==
    IF Truthy(TopicBinId(m.topic)) THEN TopicBinId(m.topic) ELSE m.payload.bin_id

\* payload.get("bin_id") or topic_bin_id
EffectiveBinId(m) ==
    IF Truthy(m.payload.bin_id) THEN m.payload.bin_id ELSE TopicBinId(m.topic)

\* date_parser.parse(ts): the instant, or None when the parse raises.
ParseTs(s) ==
    CASE s = "10:00Z" -> Some(10)
      [] s = "10:00+00:00" -> Some(10)
      [] s = "09:00Z" -> Some(9)
      [] OTHER -> None

\* Mutant: the flag is read as "the key is present".
EmptiedFlagPresent(p) == ~IsNone(p.emptied)

\* bool(payload.get("emptied", 0))
EmptiedFlag(p) == IF IsNone(p.emptied) THEN FALSE ELSE Val(p.emptied) # 0

\* Mutant: only the upper bound is checked.
FillInRangeUpperOnly(f) == f <= 100

\* 0 <= fill_pct <= 100
FillInRange(f) == 0 <= f /\ f <= 100

\* The rejection points of on_message in the order the code reaches them;
\* "accept" when the message passes them all.
Validate(m) ==
    IF ~m.decodable THEN "bad_json"
    ELSE IF ~Truthy(EffectiveBinId(m)) THEN "no_bin_id"
    ELSE IF IsNone(m.payload.ts) THEN "no_ts"
    ELSE IF IsNone(m.payload.fill_pct) THEN "no_fill_pct"
    ELSE IF ~FillInRange(Val(m.payload.fill_pct)) THEN "fill_out_of_range"
    ELSE IF IsNone(ParseTs(Val(m.payload.ts))) THEN "bad_ts"
    ELSE "accept"

\* The locals of on_message once a message has passed validation.
Normalize(m) ==
    [bin_id |-> Val(EffectiveBinId(m)),
     ts |-> Val(ParseTs(Val(m.payload.ts))),
     fill_pct |-> Val(m.payload.fill_pct),
     emptied |-> EmptiedFlag(m.payload),
     lat |-> m.payload.lat,
     lon |-> m.payload.lon]

\* ---------------------------------------------------------------- registry
\* Column defaults of a row the code inserts without naming the column.
DefaultDeviceStatus == "unknown"

NewBinRow ==
    [lat |-> None, lon |-> None, last_seen |-> None, last_emptied |-> None,
     device_status |-> DefaultDeviceStatus, sleep_mode |-> sleep_default,
     last_wake_command |-> None, user_id |-> None]

\* Mutant: ON CONFLICT (bin_id) DO NOTHING.
upsert_bin_insert_only(t, bin_id, lat, lon, last_seen) ==
    IF bin_id \in DOMAIN t THEN t
    ELSE [b \in DOMAIN t \cup {bin_id} |->
            IF b = bin_id
            THEN [NewBinRow EXCEPT !.lat = lat, !.lon = lon, !.last_seen = Some(last_seen)]
            ELSE t[b]]

\* Mutant: a report older than last_seen, or without a position, leaves the
\* stored value as it is.
upsert_bin_guarded(t, bin_id, lat, lon, last_seen) ==
    LET old == IF bin_id \in DOMAIN t THEN t[bin_id] ELSE NewBinRow
        newer == old.last_seen = << >> \/ old.last_seen[1] <= last_seen
        row == [old EXCEPT !.lat = IF lat = << >> THEN @ ELSE lat,
                           !.lon = IF lon = << >> THEN @ ELSE lon,
                           !.last_seen = IF newer THEN <<last_seen>> ELSE @]
    IN  [b \in DOMAIN t \cup {bin_id} |-> IF b = bin_id THEN row ELSE t[b]]

\* INSERT INTO bins ... ON CONFLICT (bin_id) DO UPDATE SET lat, lon, last_seen
upsert_bin(t, bin_id, lat, lon, last_seen) ==
    LET old == IF bin_id \in DOMAIN t THEN t[bin_id] ELSE NewBinRow
        row == [old EXCEPT !.lat = lat, !.lon = lon, !.last_seen = Some(last_seen)]
    IN  [b \in DOMAIN t \cup {bin_id} |-> IF b = bin_id THEN row ELSE t[b]]

\* UPDATE bins SET device_status = %s WHERE bin_id = %s
update_device_status(t, bin_id, status) ==
    [b \in DOMAIN t |->
        IF b = bin_id THEN [t[b] EXCEPT !.device_status = status] ELSE t[b]]

\* UPDATE bins SET last_emptied = %s WHERE bin_id = %s
update_bin_emptied(t, bin_id, emptied_at) ==
    [b \in DOMAIN t |->
        IF b = bin_id THEN [t[b] EXCEPT !.last_emptied = Some(emptied_at)] ELSE t[b]]

\* INSERT INTO telemetry (ts, bin_id, fill_pct, ..., emptied, lat, lon)
insert_telemetry(t, r) ==
    Append(t, [ts |-> r.ts, bin_id |-> r.bin_id, fill_pct |-> r.fill_pct,
               emptied |-> r.emptied, lat |-> r.lat, lon |-> r.lon])

\* The schema is no part of the sources.  The registry is taken as the
\* specification describes it: atomic row operations keyed by bin_id, and no
\* referential constraint between the tables, so a telemetry row is accepted
\* whether or not a Bin of its bin_id exists.
InsertAllowed(t, bin_id) == TRUE

\* ------------------------------------------------- the ingestion worker
\* What the delivered message asks for, read off the message itself (a
\* history value kept beside the handler's locals; the handler never reads
\* it).  A message is to be dropped when its payload cannot be decoded, when
\* neither payload nor topic names a bin, when ts or fill_pct is missing,
\* when fill_pct lies outside [0,100], or when ts is no date.
ReadableTs == {"10:00Z", "10:00+00:00", "09:00Z"}
InstantOf(s) == IF s = "09:00Z" THEN 9 ELSE 10

NamedBin(m) ==
    IF m.payload.bin_id \notin {None, Some("")} THEN m.payload.bin_id
    ELSE IF Len(m.topic) >= 3 /\ m.topic[3] # "" THEN Some(m.topic[3])
    ELSE None

ToBeDropped(m) ==
    \/ ~m.decodable
    \/ NamedBin(m) = None
    \/ m.payload.ts = None
    \/ m.payload.fill_pct = None
    \/ Val(m.payload.fill_pct) < 0
    \/ Val(m.payload.fill_pct) > 100
    \/ Val(m.payload.ts) \notin ReadableTs

NothingSent ==
    [drop |-> TRUE, bin_id |-> "", ts |-> 0, fill_pct |-> 0, emptied |-> FALSE,
     lat |-> None, lon |-> None]

Sent(m) ==
    IF ToBeDropped(m) THEN NothingSent
    ELSE [drop |-> FALSE, bin_id |-> Val(NamedBin(m)),
          ts |-> InstantOf(Val(m.payload.ts)),
          fill_pct |-> Val(m.payload.fill_pct),
          emptied |-> (m.payload.emptied = Some(1)),
          lat |-> m.payload.lat, lon |-> m.payload.lon]

\* The registry as it was when the message was delivered, as far as the
\* properties below need it.
Snapshot(id) ==
    [count |-> message_count, rows |-> Len(telemetry),
     existed |-> id \in DOMAIN bins,
     last_emptied |-> IF id \in DOMAIN bins THEN bins[id].last_emptied ELSE None]

\* What the delivered message says about its bin (a history value as well).
NoMsg == [decodable |-> FALSE, topic |-> << >>, bin_id |-> None]
MsgOf(m) == [decodable |-> m.decodable, topic |-> m.topic, bin_id |-> m.payload.bin_id]

IngestIdle ==
    [pc |-> "idle", cur |-> None, outcome |-> "none", applied |-> {},
     sent |-> NothingSent, msg |-> NoMsg, errors |-> 0,
     before |-> [count |-> 0, rows |-> 0, existed |-> FALSE, last_emptied |-> None]]

\* A rejection point returns: the handler is back in the network loop.
Rejected(h, reason) == [h EXCEPT !.pc = "idle", !.cur = None, !.outcome = reason]

\* Mutant: the failed call is logged and the handler goes on to the next one.
OnExceptionContinue(h, next) ==
    [h EXCEPT !.pc = next, !.cur = IF next = "idle" THEN None ELSE @,
              !.outcome = IF next = "idle" THEN "stored" ELSE @]

\* except Exception: log the error, return normally.
OnException(h, next) == [h EXCEPT !.pc = "idle", !.cur = None, !.outcome = "error"]

\* The call after update_device_status: update_bin_emptied only if emptied.
AfterStatus(r) == IF r.emptied THEN "update_bin_emptied" ELSE "insert_telemetry"

\* on_message, lines 80-122: parse and validate, no registry call yet.
OnMessage(m) ==
    /\ ingest.pc = "idle"
    /\ delivered < MaxMsgs
    /\ delivered' = delivered + 1
    /\ LET h == [ingest EXCEPT !.applied = {}, !.sent = Sent(m), !.msg = MsgOf(m),
                               !.before = Snapshot(Sent(m).bin_id)]
       IN  ingest' =
             IF Validate(m) = "accept"
             THEN [h EXCEPT !.pc = "upsert_bin", !.cur = Some(Normalize(m)),
                            !.outcome = "running"]
             ELSE Rejected(h, Validate(m))
    /\ UNCHANGED <<registry, message_count, command_client, sleep_default, req, now, registered, outside>>

\* db.upsert_bin(bin_id, lat, lon, last_seen) commits.
UpsertBinStep ==
    /\ ingest.pc = "upsert_bin"
    /\ LET r == Val(ingest.cur)
       IN  bins' = upsert_bin(bins, r.bin_id, r.lat, r.lon, r.ts)
    /\ ingest' = [ingest EXCEPT !.pc = "update_device_status",
                                !.applied = @ \cup {"upsert_bin"}]
    /\ UNCHANGED <<telemetry, commands_log, message_count, command_client,
                   sleep_default, delivered, req, now,
                   registered, outside>>

\* db.update_device_status(bin_id, "online") commits.
UpdateStatusStep ==
    /\ ingest.pc = "update_device_status"
    /\ bins' = update_device_status(bins, Val(ingest.cur).bin_id, "online")
    /\ ingest' = [ingest EXCEPT !.pc = AfterStatus(Val(ingest.cur)),
                                !.applied = @ \cup {"update_device_status"}]
    /\ UNCHANGED <<telemetry, commands_log, message_count, command_client,
                   sleep_default, delivered, req, now,
                   registered, outside>>

\* db.update_bin_emptied(bin_id, parsed_ts) commits.
UpdateEmptiedStep ==
    /\ ingest.pc = "update_bin_emptied"
    /\ LET r == Val(ingest.cur)
       IN  bins' = update_bin_emptied(bins, r.bin_id, r.ts)
    /\ ingest' = [ingest EXCEPT !.pc = "insert_telemetry",
                                !.applied = @ \cup {"update_bin_emptied"}]
    /\ UNCHANGED <<telemetry, commands_log, message_count, command_client,
                   sleep_default, delivered, req, now,
                   registered, outside>>

\* Mutant: the row is inserted and the message is not counted.
InsertTelemetryStepUncounted ==
    /\ ingest.pc = "insert_telemetry"
    /\ telemetry' = insert_telemetry(telemetry, Val(ingest.cur))
    /\ ingest' = [ingest EXCEPT !.pc = "idle", !.cur = None, !.outcome = "stored",
                                !.applied = @ \cup {"insert_telemetry"}]
    /\ UNCHANGED <<bins, commands_log, message_count, command_client,
                   sleep_default, delivered, req, now, registered, outside>>

\* db.insert_telemetry(...) commits, then message_count += 1 and return.
InsertTelemetryStep ==
    /\ ingest.pc = "insert_telemetry"
    /\ InsertAllowed(bins, Val(ingest.cur).bin_id)
    /\ telemetry' = insert_telemetry(telemetry, Val(ingest.cur))
    /\ message_count' = message_count + 1
    /\ ingest' = [ingest EXCEPT !.pc = "idle", !.cur = None, !.outcome = "stored",
                                !.applied = @ \cup {"insert_telemetry"}]
    /\ UNCHANGED <<bins, commands_log, command_client, sleep_default,
                   delivered, req, now, registered, outside>>

DbSteps ==
    {"upsert_bin", "update_device_status", "update_bin_emptied", "insert_telemetry"}

\* The step that follows each registry call of on_message.
StepAfter(h) ==
    CASE h.pc = "upsert_bin" -> "update_device_status"
      [] h.pc = "update_device_status" -> AfterStatus(Val(h.cur))
      [] h.pc = "update_bin_emptied" -> "insert_telemetry"
      [] OTHER -> "idle"

\* The registry call the handler is at raises: get_cursor rolls back and
\* re-raises, on_message catches it (lines 156-157).
PersistenceError ==
    /\ ingest.pc \in DbSteps
    /\ ingest' = [OnException(ingest, StepAfter(ingest)) EXCEPT !.errors = 1]
    /\ UNCHANGED <<registry, message_count, command_client, sleep_default,
                   delivered, req, now, registered, outside>>

IngestNext ==
    \/ \E m \in Messages : OnMessage(m)
    \/ UpsertBinStep
    \/ UpdateStatusStep
    \/ UpdateEmptiedStep
    \/ InsertTelemetryStep
    \/ PersistenceError

\* ------------------------------------------------- the command dispatcher
Hours == {6, 12}
BroadcastId == "broadcast"

\* f"cleanroute/bins/{bin_id}/command"
CommandTopic(bin_id) == <<"cleanroute", "bins", bin_id, "command">>

\* A params object is the set of its <<key, value>> pairs; false is 0.
\* wake_up_bin / broadcast_wake_up, lines 154-157 and 212-215.
WakePayload(collection_hours) ==
    { <<"collection_hours", collection_hours>>, <<"telemetry_interval_minutes", 60>> }

\* update_device_config, lines 197-201: a key is set only for a truthy argument.
ConfigPayload(telemetry_interval, battery_threshold) ==
    (IF ~IsNone(telemetry_interval) /\ Val(telemetry_interval) # 0
        THEN { <<"telemetry_interval_minutes", Val(telemetry_interval)>> } ELSE {})
    \cup
    (IF ~IsNone(battery_threshold) /\ Val(battery_threshold) # 0
        THEN { <<"battery_threshold_v", Val(battery_threshold)>> } ELSE {})

\* payload or {}
ParamsOf(payload) == IF IsNone(payload) THEN {} ELSE Val(payload)

\* Mutant: the update is never committed (get_cursor without commit=True).
wake_up_bin_update_uncommitted(t, bin_id, ts) == t

\* UPDATE bins SET last_wake_command = NOW(), sleep_mode = FALSE WHERE bin_id = %s
wake_up_bin_update(t, bin_id, ts) ==
    [b \in DOMAIN t |->
        IF b = bin_id
        THEN [t[b] EXCEPT !.last_wake_command = Some(ts), !.sleep_mode = FALSE]
        ELSE t[b]]

\* Mutant: going to sleep also clears last_wake_command.
sleep_bin_update_clears_wake(t, bin_id) ==
    [b \in DOMAIN t |->
        IF b = bin_id
        THEN [t[b] EXCEPT !.sleep_mode = TRUE, !.last_wake_command = None]
        ELSE t[b]]

\* UPDATE bins SET sleep_mode = TRUE WHERE bin_id = %s
sleep_bin_update(t, bin_id) ==
    [b \in DOMAIN t |->
        IF b = bin_id THEN [t[b] EXCEPT !.sleep_mode = TRUE] ELSE t[b]]

\* Mutant: the rows are woken without stamping last_wake_command.
broadcast_wake_up_update_no_stamp(t, ts) ==
    [b \in DOMAIN t |-> [t[b] EXCEPT !.sleep_mode = FALSE]]

\* UPDATE bins SET last_wake_command = NOW(), sleep_mode = FALSE
broadcast_wake_up_update(t, ts) ==
    [b \in DOMAIN t |->
        [t[b] EXCEPT !.last_wake_command = Some(ts), !.sleep_mode = FALSE]]

\* Mutant: putting the bins to sleep also marks them offline.
broadcast_sleep_update_offline(t) ==
    [b \in DOMAIN t |-> [t[b] EXCEPT !.sleep_mode = TRUE, !.device_status = "offline"]]

\* UPDATE bins SET sleep_mode = TRUE
broadcast_sleep_update(t) ==
    [b \in DOMAIN t |-> [t[b] EXCEPT !.sleep_mode = TRUE]]

\* Mutant: registering an existing bin sets device_status to 'offline' again.
register_device_resets_status(t, bin_id, user_id, lat, lon) ==
    LET old == IF bin_id \in DOMAIN t THEN t[bin_id] ELSE NewBinRow
        row == [old EXCEPT !.user_id = Some(user_id), !.lat = lat, !.lon = lon,
                           !.device_status = "offline"]
    IN  [b \in DOMAIN t \cup {bin_id} |-> IF b = bin_id THEN row ELSE t[b]]

\* INSERT INTO bins (..., device_status) VALUES (..., 'offline')
\* ON CONFLICT (bin_id) DO UPDATE SET user_id, ..., lat, lon
register_device(t, bin_id, user_id, lat, lon) ==
    LET row == IF bin_id \in DOMAIN t
               THEN [t[bin_id] EXCEPT !.user_id = Some(user_id), !.lat = lat, !.lon = lon]
               ELSE [NewBinRow EXCEPT !.user_id = Some(user_id), !.lat = lat,
                                      !.lon = lon, !.device_status = "offline"]
    IN  [b \in DOMAIN t \cup {bin_id} |-> IF b = bin_id THEN row ELSE t[b]]

\* INSERT INTO commands_log (bin_id, command_type, payload)
log_command(t, bin_id, command_type, payload) ==
    Append(t, [bin_id |-> bin_id, command_type |-> command_type, payload |-> payload])

\* What an orchestrator remembers of the operation that ran before it.
NoPrev == [caller |-> "none", hours |-> 0, result |-> "none", existed0 |-> {},
           registered0 |-> 0]

\* The bins that have an owner (a history value: read off the rows when an
\* orchestrator is entered, never read by it).
Owners == { b \in DOMAIN bins : bins[b].user_id # << >> }

\* The request path between operations.  pubs lists the publishes of the
\* running (or last) operation; logged0, existed0, wake0 and called_at record
\* the registry as the operation found it, log_raised that its log write failed.
\* caller is the orchestrator the operation runs under, success, bins and todo
\* its locals; alerts0, registered0, owners0, prev and alert_raised are history.
ReqIdle ==
    [pc |-> "idle", op |-> "none", bin_id |-> "", command_type |-> "",
     params |-> {}, qos |-> 1, retain |-> FALSE, hours |-> 0,
     rc |-> "none", result |-> "none", updated |-> FALSE, pubs |-> << >>,
     logged0 |-> 0, existed0 |-> {}, wake0 |-> None, called_at |-> 0,
     log_raised |-> FALSE,
     caller |-> "none", success |-> "none", bins |-> << >>, todo |-> << >>,
     bins_notified |-> 0, alerts0 |-> 0, registered0 |-> 0, prev |-> NoPrev,
     owners0 |-> {}, alert_raised |-> FALSE]

\* An operation is entered: its arguments and what it found.
Enter(op, bin_id, hours) ==
    [ReqIdle EXCEPT !.op = op, !.bin_id = bin_id, !.hours = hours,
        !.logged0 = Len(commands_log), !.existed0 = DOMAIN bins,
        !.wake0 = IF bin_id \in DOMAIN bins THEN bins[bin_id].last_wake_command
                  ELSE None,
        !.called_at = now + 1]

\* Mutant: every command is published retained.
SendCommandRetained(r, bin_id, command_type, payload, qos, retain) ==
    [r EXCEPT !.pc = "send_command", !.bin_id = bin_id,
        !.command_type = command_type, !.params = ParamsOf(payload),
        !.qos = qos, !.retain = TRUE]

\* send_command(bin_id, command_type, payload, qos, retain) is entered.
SendCommand(r, bin_id, command_type, payload, qos, retain) ==
    [r EXCEPT !.pc = "send_command", !.bin_id = bin_id,
        !.command_type = command_type, !.params = ParamsOf(payload),
        !.qos = qos, !.retain = retain]

\* An operation is entered on behalf of an orchestrator.
EnterFrom(caller, op, bin_id, hours) ==
    [Enter(op, bin_id, hours) EXCEPT
        !.caller = caller, !.alerts0 = Len(alerts), !.registered0 = registered,
        !.owners0 = IF caller = "none" THEN {} ELSE Owners,
        !.prev = IF caller = "none" THEN NoPrev
                 ELSE [caller |-> req.caller, hours |-> req.hours,
                       result |-> req.result, existed0 |-> req.existed0,
                       registered0 |-> req.registered0]]

\* The operation ends: with a value ("true", "false") or by raising.  Under
\* start_collection_day a value is assigned to success (line 247) and the
\* orchestrator goes on; an exception leaves the orchestrator as well.
Return(r, result) ==
    IF r.caller = "start_collection_day" /\ result \in {"true", "false"}
    THEN [r EXCEPT !.pc = "select_bins", !.success = result]
    ELSE [r EXCEPT !.pc = "idle", !.result = result, !.success = result]

CanCall == req.pc = "idle" /\ now < MaxOps

\* The registry update of a lifecycle operation raises: the operation raises.
UpdateRaisesFrom(caller, op, bin_id, hours) ==
    /\ CanCall
    /\ now' = now + 1
    /\ req' = Return(EnterFrom(caller, op, bin_id, hours), "raised")
    /\ UNCHANGED <<registry, message_count, command_client, sleep_default,
                   ingest, delivered, registered, outside>>

UpdateRaises(op, bin_id, hours) == UpdateRaisesFrom("none", op, bin_id, hours)

\* wake_up_bin(bin_id, collection_hours), lines 154-166.
WakeUpBin(bin_id, collection_hours) ==
    /\ CanCall
    /\ now' = now + 1
    /\ bins' = wake_up_bin_update(bins, bin_id, now + 1)
    /\ req' = SendCommand([Enter("wake_up_bin", bin_id, collection_hours)
                              EXCEPT !.updated = TRUE],
                          bin_id, "wake_up", Some(WakePayload(collection_hours)),
                          1, FALSE)
    /\ UNCHANGED <<telemetry, commands_log, message_count, command_client,
                   sleep_default, ingest, delivered, registered, outside>>

\* sleep_bin(bin_id), lines 171-177.
SleepBin(bin_id) ==
    /\ CanCall
    /\ now' = now + 1
    /\ bins' = sleep_bin_update(bins, bin_id)
    /\ req' = SendCommand([Enter("sleep_bin", bin_id, 0) EXCEPT !.updated = TRUE],
                          bin_id, "sleep", None, 1, FALSE)
    /\ UNCHANGED <<telemetry, commands_log, message_count, command_client,
                   sleep_default, ingest, delivered, registered, outside>>

\* broadcast_wake_up(collection_hours), lines 212-224.
BroadcastWakeUpFrom(caller, collection_hours) ==
    /\ CanCall
    /\ now' = now + 1
    /\ bins' = broadcast_wake_up_update(bins, now + 1)
    /\ req' = SendCommand([EnterFrom(caller, "broadcast_wake_up", BroadcastId,
                                     collection_hours)
                              EXCEPT !.updated = TRUE],
                          BroadcastId, "wake_up", Some(WakePayload(collection_hours)),
                          1, FALSE)
    /\ UNCHANGED <<telemetry, commands_log, message_count, command_client,
                   sleep_default, ingest, delivered, registered, outside>>

BroadcastWakeUp(collection_hours) == BroadcastWakeUpFrom("none", collection_hours)

\* broadcast_sleep(), lines 229-233.
BroadcastSleepFrom(caller) ==
    /\ CanCall
    /\ now' = now + 1
    /\ bins' = broadcast_sleep_update(bins)
    /\ req' = SendCommand([EnterFrom(caller, "broadcast_sleep", BroadcastId, 0)
                              EXCEPT !.updated = TRUE],
                          BroadcastId, "sleep", None, 1, FALSE)
    /\ UNCHANGED <<telemetry, commands_log, message_count, command_client,
                   sleep_default, ingest, delivered, registered, outside>>

BroadcastSleep == BroadcastSleepFrom("none")

\* The operations that only dispatch: no registry update of their own.
DispatchOnly(op, bin_id, command_type, payload, qos, retain) ==
    /\ CanCall
    /\ now' = now + 1
    /\ req' = SendCommand(Enter(op, bin_id, 0), bin_id, command_type, payload,
                          qos, retain)
    /\ UNCHANGED <<registry, message_count, command_client, sleep_default,
                   ingest, delivered, registered, outside>>

\* reset_emptied_flag(bin_id), lines 182-183.
ResetEmptiedFlag(bin_id) ==
    DispatchOnly("reset_emptied_flag", bin_id, "reset_emptied",
                 Some({ <<"emptied", 0>> }), 1, FALSE)

\* request_status(bin_id), line 188.
RequestStatus(bin_id) ==
    DispatchOnly("request_status", bin_id, "get_status", None, 1, FALSE)

\* update_device_config(bin_id, telemetry_interval, battery_threshold).
UpdateDeviceConfig(bin_id, telemetry_interval, battery_threshold) ==
    DispatchOnly("update_device_config", bin_id, "update_config",
                 Some(ConfigPayload(telemetry_interval, battery_threshold)), 1, FALSE)

\* send_command called directly, with a delivery guarantee of the caller's.
DirectSend(bin_id, payload, qos, retain) ==
    DispatchOnly("send_command", bin_id, "get_status", payload, qos, retain)

\* send_command(bin_id, command_type, payload): qos and retain left to their
\* defaults (qos: int = 1, retain: bool = False).
DirectSendDefaults(bin_id, payload) ==
    DispatchOnly("send_command_defaults", bin_id, "get_status", payload, 1, FALSE)

\* init_command_client(), reached from send_command line 120 while the handle
\* is None.  The handle is assigned before anything can fail (line 45); a
\* missing CA certificate (line 59) or a failed connect (line 83) raises out
\* of send_command.
InitOutcomes(cfg) ==
    IF cfg.use_tls /\ ~cfg.ca_cert THEN {"no_ca_cert"}
    ELSE {"connected", "connect_failed"}

InitRaises(r) == Return(r, "raised")

\* tls_set is called only past the certificate check (lines 57-66).
TlsSet(cfg) == cfg.use_tls /\ cfg.ca_cert

InitCommandClient ==
    /\ req.pc = "send_command"
    /\ command_client = "None"
    /\ \E o \in InitOutcomes(config) :
          /\ connects' = IF o = "no_ca_cert" THEN connects
                         ELSE connects \cup { <<"command", TlsSet(config)>> }
          /\ IF o = "connected"
             THEN /\ command_client' = "connected"
                  /\ req' = req
             ELSE /\ command_client' = "created"
                  /\ req' = InitRaises(req)
    /\ UNCHANGED <<registry, message_count, sleep_default, ingest, delivered,
                   now, registered, alerts, config, mqtt, zone, cursor, purge, peer>>

\* What command_client.publish can do: return rc 0, return an error code, or
\* raise.  A client that never connected has no socket and cannot succeed.
PublishOutcomes(client) ==
    IF client = "connected" THEN {"success", "failure", "raises"}
    ELSE {"failure", "raises"}

\* send_command, lines 122-136 and 144-146: build the envelope and publish.
Publish ==
    /\ req.pc = "send_command"
    /\ command_client # "None"
    /\ \E o \in PublishOutcomes(command_client) :
          LET sent == [topic |-> CommandTopic(req.bin_id),
                       command |-> req.command_type, params |-> req.params,
                       qos |-> req.qos, retain |-> req.retain, outcome |-> o]
              r == [req EXCEPT !.pubs = Append(@, sent), !.rc = o]
          IN  req' = IF o = "raises" THEN Return(r, "false")
                     ELSE [r EXCEPT !.pc = "log_command"]
    /\ UNCHANGED <<registry, message_count, command_client, sleep_default,
                   ingest, delivered, now, registered, outside>>

\* rc == mqtt.MQTT_ERR_SUCCESS
ResultOf(rc) == IF rc = "success" THEN "true" ELSE "false"

\* send_command, lines 139-142: db.log_command commits, then return.
LogCommand ==
    /\ req.pc = "log_command"
    /\ commands_log' =
          log_command(commands_log, req.bin_id, req.command_type,
                      [command |-> req.command_type, timestamp |-> req.called_at,
                       params |-> req.params])
    /\ req' = Return(req, ResultOf(req.rc))
    /\ UNCHANGED <<bins, telemetry, message_count, command_client, sleep_default,
                   ingest, delivered, now, registered, outside>>

\* db.log_command raises: caught at line 144, send_command returns False.
LogCommandRaises ==
    /\ req.pc = "log_command"
    /\ req' = Return([req EXCEPT !.log_raised = TRUE], "false")
    /\ UNCHANGED <<registry, message_count, command_client, sleep_default,
                   ingest, delivered, now, registered, outside>>

\* db.register_device(bin_id, user_id, ...) from the request path.
Users == {"U1"}

RegisterDevice(bin_id, user_id) ==
    /\ req.pc = "idle"
    /\ registered < MaxRegistrations
    /\ registered' = registered + 1
    /\ bins' = register_device(bins, bin_id, user_id, None, None)
    /\ UNCHANGED <<telemetry, commands_log, message_count, command_client,
                   sleep_default, ingest, delivered, req, now, outside>>

\* ------------------------------------------------------- the orchestrator
\* Every order in which a SELECT without ORDER BY can return the rows s.
Orders(s) ==
    { q \in [1..Cardinality(s) -> s] :
        \A i, j \in 1..Cardinality(s) : q[i] = q[j] => i = j }

\* Mutant: the SELECT has no WHERE clause.
owned_bins_all(t) == DOMAIN t

\* SELECT bin_id, ... FROM bins WHERE user_id IS NOT NULL
owned_bins(t) == { b \in DOMAIN t : t[b].user_id # None }

\* INSERT INTO alerts (bin_id, alert_type, severity, message)
create_alert(t, bin_id, alert_type, severity) ==
    Append(t, [bin_id |-> bin_id, alert_type |-> alert_type,
               severity |-> severity, resolved |-> FALSE])

\* start_collection_day(collection_hours), line 247: broadcast_wake_up first.
StartCollectionDay(collection_hours) ==
    BroadcastWakeUpFrom("start_collection_day", collection_hours)

\* end_collection_day(), line 282.
EndCollectionDay == BroadcastSleepFrom("end_collection_day")

\* start_collection_day, lines 250-256: bins = cur.fetchall().
SelectBins ==
    /\ req.pc = "select_bins"
    /\ \E q \in Orders(owned_bins(bins)) :
          req' = [req EXCEPT !.pc = "create_alert", !.bins = q, !.todo = q]
    /\ UNCHANGED <<registry, message_count, command_client, sleep_default,
                   ingest, delivered, now, registered, outside>>

\* The SELECT raises: start_collection_day raises.
SelectBinsRaises ==
    /\ req.pc = "select_bins"
    /\ req' = [req EXCEPT !.pc = "idle", !.result = "raised"]
    /\ UNCHANGED <<registry, message_count, command_client, sleep_default,
                   ingest, delivered, now, registered, outside>>

\* start_collection_day, lines 259-265: one db.create_alert per row.
CreateAlert ==
    /\ req.pc = "create_alert"
    /\ req.todo # << >>
    /\ alerts' = create_alert(alerts, Head(req.todo), "collection_reminder", "info")
    /\ req' = [req EXCEPT !.todo = Tail(@)]
    /\ UNCHANGED <<registry, message_count, command_client, sleep_default,
                   ingest, delivered, now, registered,
                   config, connects, mqtt, zone, cursor, purge, peer>>

\* db.create_alert raises: nothing in the loop catches it, so
\* start_collection_day raises with the rest of the rows unvisited.
CreateAlertRaises ==
    /\ req.pc = "create_alert"
    /\ req.todo # << >>
    /\ req' = [req EXCEPT !.pc = "idle", !.result = "raised", !.alert_raised = TRUE]
    /\ UNCHANGED <<registry, message_count, command_client, sleep_default,
                   ingest, delivered, now, registered, outside>>

\* start_collection_day, lines 267-272: the result.
ReturnStartCollectionDay ==
    /\ req.pc = "create_alert"
    /\ req.todo = << >>
    /\ req' = [req EXCEPT !.pc = "idle", !.result = req.success,
                          !.bins_notified = Len(req.bins)]
    /\ UNCHANGED <<registry, message_count, command_client, sleep_default,
                   ingest, delivered, now, registered, outside>>

LifecycleOps == {"wake_up_bin", "sleep_bin", "broadcast_wake_up", "broadcast_sleep"}

DispatchNext ==
    \/ \E b \in BinIds, h \in Hours : WakeUpBin(b, h)
    \/ \E b \in BinIds : SleepBin(b)
    \/ \E h \in Hours : BroadcastWakeUp(h)
    \/ BroadcastSleep
    \/ \E b \in BinIds, op \in {"wake_up_bin", "sleep_bin"} : UpdateRaises(op, b, 12)
    \/ \E op \in {"broadcast_wake_up", "broadcast_sleep"} :
          UpdateRaises(op, BroadcastId, 12)
    \/ \E b \in BinIds : ResetEmptiedFlag(b)
    \/ \E b \in BinIds : RequestStatus(b)
    \/ \E ti \in {None, Some(0), Some(30)}, bt \in {None, Some(3)} :
          UpdateDeviceConfig("B1", ti, bt)
    \/ \E b \in {"B1", BroadcastId} :
          \/ DirectSend(b, None, 0, FALSE)
          \/ DirectSend(b, Some({}), 2, TRUE)
    \/ InitCommandClient
    \/ Publish
    \/ LogCommand
    \/ LogCommandRaises
    \/ \E b \in BinIds, u \in Users : RegisterDevice(b, u)

\* A plain report of bin B2: what creates a Bin row that has no owner.
Report ==
    [topic |-> <<"cleanroute", "bins", "B2", "telemetry">>, decodable |-> TRUE,
     payload |-> [BasePayload EXCEPT !.bin_id = Some("B2")]]

\* The orchestrators on a registry that reports and registrations have
\* filled: one report is handled before the first request is made, and a
\* request is made only while on_message is not running.
HandlerIdle == ingest.pc = "idle"
BeforeRequests == now = 0 /\ registered = 0

CollectionNext ==
    \/ \E h \in Hours : HandlerIdle /\ StartCollectionDay(h)
    \/ HandlerIdle /\ EndCollectionDay
    \/ HandlerIdle /\ UpdateRaisesFrom("start_collection_day", "broadcast_wake_up",
                                       BroadcastId, 12)
    \/ HandlerIdle /\ UpdateRaisesFrom("end_collection_day", "broadcast_sleep",
                                       BroadcastId, 0)
    \/ InitCommandClient
    \/ Publish
    \/ LogCommand
    \/ LogCommandRaises
    \/ SelectBins
    \/ SelectBinsRaises
    \/ CreateAlert
    \/ CreateAlertRaises
    \/ ReturnStartCollectionDay
    \/ \E b \in BinIds, u \in Users : HandlerIdle /\ RegisterDevice(b, u)
    \/ BeforeRequests /\ delivered = 0 /\ OnMessage(Report)
    \/ BeforeRequests /\ UpsertBinStep
    \/ BeforeRequests /\ UpdateStatusStep
    \/ BeforeRequests /\ InsertTelemetryStep

\* ---------------------------------------------------- the ingest service
\* mqtt_ingest's module state and its client.  link is the broker connection:
\* "none", "open" (connect() returned, CONNACK not yet handled), "accepted",
\* "refused", "lost", "released".  loop is the network thread of loop_start;
\* started says that start_mqtt_ingest returned normally, having logged
\* "MQTT ingest service started"; stop is the position in stop_mqtt_ingest,
\* and inflight records that on_message was running when it was called.
MqttIdle ==
    [client |-> "None", link |-> "none", loop |-> FALSE, connected |-> FALSE,
     subscribed |-> FALSE, started |-> FALSE, start |-> "none", stop |-> "none",
     inflight |-> FALSE, status |-> << >>]

\* get_ingest_status(), lines 230-240: the dict it returns, kept in status
\* (a history value) so that what was read can be compared with the state.
GetIngestStatus ==
    /\ mqtt' = [mqtt EXCEPT !.status =
                    << [connected |-> mqtt.connected,
                        messages_processed |-> message_count,
                        tls_enabled |-> config.use_tls,
                        authenticated |-> config.use_tls] >>]
    /\ UNCHANGED <<registry, message_count, command_client, sleep_default,
                   ingest, delivered, req, now, registered,
                   alerts, config, connects, zone, cursor, purge, peer>>

\* Mutant: a missing CA certificate is only logged.
StartOutcomesNoCheck(cfg) == {"connected", "connect_failed"}

\* start_mqtt_ingest: FileNotFoundError at line 192, or connect() at line
\* 212 raising, or the service started.
StartOutcomes(cfg) ==
    IF cfg.use_tls /\ ~cfg.ca_cert THEN {"no_ca_cert"}
    ELSE {"connected", "connect_failed"}

\* start_mqtt_ingest(), lines 164-218, called once, at application startup
\* (so never after the shutdown has called stop_mqtt_ingest).
StartMqttIngest ==
    /\ mqtt.client = "None"
    /\ mqtt.stop = "none"
    /\ \E o \in StartOutcomes(config) :
          /\ connects' = IF o = "no_ca_cert" THEN connects
                         ELSE connects \cup { <<"ingest", TlsSet(config)>> }
          /\ mqtt' = IF o = "connected"
                     THEN [mqtt EXCEPT !.client = "created", !.link = "open",
                                       !.loop = TRUE, !.started = TRUE,
                                       !.start = "returned"]
                     ELSE [mqtt EXCEPT !.client = "created", !.start = "raised"]
    /\ UNCHANGED <<registry, message_count, command_client, sleep_default,
                   ingest, delivered, req, now, registered,
                   alerts, config, zone, cursor, purge, peer>>

\* The CONNACK codes: 0 accepts, anything else refuses (5: not authorised).
ConnackCodes == {0, 5}

\* on_connect(client, userdata, flags, rc), lines 52-63, on the network thread.
OnConnect(rc) ==
    /\ mqtt.loop
    /\ mqtt.link = "open"
    /\ ingest.pc = "idle"
    /\ mqtt' = IF rc = 0
               THEN [mqtt EXCEPT !.link = "accepted", !.connected = TRUE,
                                 !.subscribed = TRUE]
               ELSE [mqtt EXCEPT !.link = "refused", !.connected = FALSE]
    /\ UNCHANGED <<registry, message_count, command_client, sleep_default,
                   ingest, delivered, req, now, registered,
                   alerts, config, connects, zone, cursor, purge, peer>>

\* on_disconnect(client, userdata, rc), lines 66-70, on the network thread.
OnDisconnect ==
    /\ mqtt.loop
    /\ mqtt.link = "accepted"
    /\ ingest.pc = "idle"
    /\ mqtt' = [mqtt EXCEPT !.link = "lost", !.connected = FALSE]
    /\ UNCHANGED <<registry, message_count, command_client, sleep_default,
                   ingest, delivered, req, now, registered,
                   alerts, config, connects, zone, cursor, purge, peer>>

\* The network thread hands a message of the subscription to on_message.
Deliver(m) ==
    /\ mqtt.loop
    /\ mqtt.link = "accepted"
    /\ mqtt.subscribed
    /\ OnMessage(m)

\* stop_mqtt_ingest(), lines 221-223: nothing to do without a client.
StopMqttIngest ==
    /\ mqtt.stop = "none"
    /\ mqtt' = [mqtt EXCEPT !.stop = IF mqtt.client = "None" THEN "returned"
                                     ELSE "loop_stop",
                            !.inflight = ingest.pc # "idle"]
    /\ UNCHANGED <<registry, message_count, command_client, sleep_default,
                   ingest, delivered, req, now, registered,
                   alerts, config, connects, zone, cursor, purge, peer>>

\* Mutant: loop_stop returns without waiting for the network thread.
LoopStopJoinsNot(h) == TRUE

\* loop_stop() joins the network thread: it returns once the callback the
\* thread is in has returned.
LoopStopJoins(h) == h.pc = "idle"

\* stop_mqtt_ingest, line 224: mqtt_client.loop_stop().
LoopStop ==
    /\ mqtt.stop = "loop_stop"
    /\ LoopStopJoins(ingest)
    /\ mqtt' = [mqtt EXCEPT !.loop = FALSE, !.stop = "disconnect"]
    /\ UNCHANGED <<registry, message_count, command_client, sleep_default,
                   ingest, delivered, req, now, registered,
                   alerts, config, connects, zone, cursor, purge, peer>>

\* stop_mqtt_ingest, lines 225-226: mqtt_client.disconnect(), then return.
Disconnect ==
    /\ mqtt.stop = "disconnect"
    /\ mqtt' = [mqtt EXCEPT !.stop = "returned",
                            !.link = IF @ \in {"open", "accepted"} THEN "released"
                                     ELSE @]
    /\ UNCHANGED <<registry, message_count, command_client, sleep_default,
                   ingest, delivered, req, now, registered,
                   alerts, config, connects, zone, cursor, purge, peer>>

\* What the service is sent: a report and a message to be rejected.
ServiceMessages ==
    { Report,
      [topic |-> <<"cleanroute", "bins">>, decodable |-> FALSE, payload |-> NoPayload] }

\* The service from start to stop, with a dispatcher operation beside it.
ServiceNext ==
    \/ StartMqttIngest
    \/ \E rc \in ConnackCodes : OnConnect(rc)
    \/ OnDisconnect
    \/ \E m \in ServiceMessages : Deliver(m)
    \/ UpsertBinStep
    \/ UpdateStatusStep
    \/ InsertTelemetryStep
    \/ PersistenceError
    \/ StopMqttIngest
    \/ LoopStop
    \/ Disconnect
    \/ RequestStatus("B1")
    \/ InitCommandClient
    \/ Publish
    \/ LogCommand
    \/ LogCommandRaises

\* ------------------------------------------------------------ get_cursor
\* One "with get_cursor(commit) as cur" block, step by step.  open and curs
\* count the connections and cursors that have been opened and not closed;
\* tx is the transaction of the block's connection; failed names the call
\* that raised; alerts0 is the length of alerts when the block was entered.
CursorIdle ==
    [pc |-> "idle", op |-> "none", commit |-> FALSE, open |-> 0, curs |-> 0,
     tx |-> "none", raised |-> FALSE, failed |-> "none", blocks |-> 0,
     alerts0 |-> 0]

\* The registry operations run through get_cursor here: one that writes and
\* commits (create_alert) and one that only reads (get_unresolved_alerts).
CursorOps == {"create_alert", "get_unresolved_alerts"}
Commits(op) == op = "create_alert"

CursorUnchanged ==
    UNCHANGED <<registry, message_count, command_client, sleep_default,
                ingest, delivered, req, now, registered,
                alerts, config, connects, mqtt, zone, purge, peer>>

\* A registry operation enters its with-block.
GetCursor(op) ==
    /\ cursor.pc = "idle"
    /\ cursor.blocks < MaxBlocks
    /\ cursor' = [cursor EXCEPT !.pc = "get_connection", !.op = op,
                                !.commit = Commits(op), !.tx = "none",
                                !.raised = FALSE, !.failed = "none",
                                !.blocks = @ + 1,
                                !.alerts0 = Len(alerts)]
    /\ CursorUnchanged

\* get_cursor, line 30: conn = get_connection().
GetConnection ==
    /\ cursor.pc = "get_connection"
    /\ cursor' = [cursor EXCEPT !.pc = "cursor", !.open = @ + 1]
    /\ CursorUnchanged

\* psycopg2.connect raises: there is no connection, the block raises.
GetConnectionRaises ==
    /\ cursor.pc = "get_connection"
    /\ cursor' = [cursor EXCEPT !.pc = "idle", !.raised = TRUE,
                                !.failed = "get_connection"]
    /\ CursorUnchanged

\* get_cursor, line 31: cur = conn.cursor(...).
CreateCursor ==
    /\ cursor.pc = "cursor"
    /\ cursor' = [cursor EXCEPT !.pc = "body", !.curs = @ + 1, !.tx = "active"]
    /\ CursorUnchanged

\* conn.cursor raises at line 31, before the try of line 32 is entered:
\* neither the except nor the finally clause runs.
CreateCursorRaises ==
    /\ cursor.pc = "cursor"
    /\ cursor' = [cursor EXCEPT !.pc = "idle", !.raised = TRUE,
                                !.failed = "cursor"]
    /\ CursorUnchanged

\* get_cursor, line 33: the statements of the with-block run.
Body ==
    /\ cursor.pc = "body"
    /\ cursor' = [cursor EXCEPT !.pc = IF cursor.commit THEN "commit" ELSE "finally"]
    /\ CursorUnchanged

\* A statement raises inside the with-block.
BodyRaises ==
    /\ cursor.pc = "body"
    /\ cursor' = [cursor EXCEPT !.pc = "except", !.failed = "statement"]
    /\ CursorUnchanged

\* get_cursor, lines 34-35: conn.commit() makes the block's write durable.
Commit ==
    /\ cursor.pc = "commit"
    /\ alerts' = create_alert(alerts, "B1", "collection_reminder", "info")
    /\ cursor' = [cursor EXCEPT !.pc = "finally", !.tx = "committed"]
    /\ UNCHANGED <<registry, message_count, command_client, sleep_default,
                   ingest, delivered, req, now, registered,
                   config, connects, mqtt, zone, purge, peer>>

\* conn.commit() raises.
CommitRaises ==
    /\ cursor.pc = "commit"
    /\ cursor' = [cursor EXCEPT !.pc = "except", !.failed = "commit"]
    /\ CursorUnchanged

\* get_cursor, lines 36-38: conn.rollback(), raise e.
Except ==
    /\ cursor.pc = "except"
    /\ cursor' = [cursor EXCEPT !.pc = "finally", !.tx = "rolled_back",
                                !.raised = TRUE]
    /\ CursorUnchanged

\* get_cursor, lines 39-41: cur.close(), conn.close().
Finally ==
    /\ cursor.pc = "finally"
    /\ cursor' = [cursor EXCEPT !.pc = "idle", !.curs = @ - 1, !.open = @ - 1]
    /\ CursorUnchanged

CursorNext ==
    \/ \E op \in CursorOps : GetCursor(op)
    \/ GetConnection
    \/ GetConnectionRaises
    \/ CreateCursor
    \/ CreateCursorRaises
    \/ Body
    \/ BodyRaises
    \/ Commit
    \/ CommitRaises
    \/ Except
    \/ Finally

\* Every operation that publishes a command, on an empty registry.
CommandsNext ==
    \/ \E b \in BinIds, h \in Hours : WakeUpBin(b, h)
    \/ \E b \in BinIds : SleepBin(b)
    \/ \E h \in Hours : BroadcastWakeUp(h)
    \/ BroadcastSleep
    \/ \E b \in BinIds : ResetEmptiedFlag(b)
    \/ \E b \in BinIds : RequestStatus(b)
    \/ \E ti \in {None, Some(0), Some(30)}, bt \in {None, Some(3)} :
          UpdateDeviceConfig("B1", ti, bt)
    \/ \E b \in {"B1", BroadcastId} :
          \/ DirectSend(b, None, 0, FALSE)
          \/ DirectSend(b, Some({}), 2, TRUE)
          \/ DirectSendDefaults(b, None)
    \/ \E h \in Hours : StartCollectionDay(h)
    \/ EndCollectionDay
    \/ InitCommandClient
    \/ Publish
    \/ LogCommand
    \/ LogCommandRaises
    \/ SelectBins
    \/ ReturnStartCollectionDay

\* ------------------------------------------------------ the zone resolver
\* zones.DISTRICTS in declaration order; a coordinate is in thousandths of a
\* degree, so that every bound of the table is an integer.
DISTRICTS ==
    <<
      [name |-> "Colombo",
       bounds |-> [lat_min |-> 6830, lat_max |-> 6980, lon_min |-> 79820, lon_max |-> 79920],
       zones |-> <<
             [id |-> "colombo_zone1", bounds |-> [lat_min |-> 6925, lat_max |-> 6980, lon_min |-> 79840, lon_max |-> 79865]],
             [id |-> "colombo_zone2", bounds |-> [lat_min |-> 6885, lat_max |-> 6925, lon_min |-> 79845, lon_max |-> 79865]],
             [id |-> "colombo_zone3", bounds |-> [lat_min |-> 6830, lat_max |-> 6885, lon_min |-> 79850, lon_max |-> 79875]],
             [id |-> "colombo_zone4", bounds |-> [lat_min |-> 6850, lat_max |-> 6920, lon_min |-> 79875, lon_max |-> 79920]] >>],
      [name |-> "Kurunegala",
       bounds |-> [lat_min |-> 7400, lat_max |-> 7550, lon_min |-> 80300, lon_max |-> 80450],
       zones |-> <<
             [id |-> "kurunegala_zone1", bounds |-> [lat_min |-> 7480, lat_max |-> 7500, lon_min |-> 80355, lon_max |-> 80375]],
             [id |-> "kurunegala_zone2", bounds |-> [lat_min |-> 7500, lat_max |-> 7550, lon_min |-> 80340, lon_max |-> 80400]],
             [id |-> "kurunegala_zone3", bounds |-> [lat_min |-> 7400, lat_max |-> 7480, lon_min |-> 80340, lon_max |-> 80400]] >>],
      [name |-> "Galle",
       bounds |-> [lat_min |-> 5950, lat_max |-> 6100, lon_min |-> 80150, lon_max |-> 80280],
       zones |-> <<
             [id |-> "galle_zone1", bounds |-> [lat_min |-> 6020, lat_max |-> 6050, lon_min |-> 80200, lon_max |-> 80230]],
             [id |-> "galle_zone2", bounds |-> [lat_min |-> 5950, lat_max |-> 6020, lon_min |-> 80200, lon_max |-> 80280]] >>],
      [name |-> "Kandy",
       bounds |-> [lat_min |-> 7250, lat_max |-> 7350, lon_min |-> 80580, lon_max |-> 80700],
       zones |-> <<
             [id |-> "kandy_zone1", bounds |-> [lat_min |-> 7280, lat_max |-> 7310, lon_min |-> 80620, lon_max |-> 80650]],
             [id |-> "kandy_zone2", bounds |-> [lat_min |-> 7250, lat_max |-> 7290, lon_min |-> 80580, lon_max |-> 80620]] >>],
      [name |-> "Matara",
       bounds |-> [lat_min |-> 5900, lat_max |-> 6000, lon_min |-> 80480, lon_max |-> 80600],
       zones |-> <<
             [id |-> "matara_zone1", bounds |-> [lat_min |-> 5930, lat_max |-> 5970, lon_min |-> 80520, lon_max |-> 80560]] >>]
    >>

\* The inputs: every bound of the table, the coordinate next to it on either
\* side, and the coordinates of (6.93, 79.85) and (6.90, 79.70).
Boxes ==
    UNION { { DISTRICTS[i].bounds }
            \cup { DISTRICTS[i].zones[j].bounds : j \in 1..Len(DISTRICTS[i].zones) } :
            i \in 1..Len(DISTRICTS) }

Lats ==
    UNION { { x - 1, x, x + 1 } : x \in { b.lat_min : b \in Boxes } \cup { b.lat_max : b \in Boxes } }
    \cup { 6930, 6900 }

Lons ==
    UNION { { x - 1, x, x + 1 } : x \in { b.lon_min : b \in Boxes } \cup { b.lon_max : b \in Boxes } }
    \cup { 79850, 79700 }

\* Mutant: the bounds are exclusive.
InBoundsExclusive(bounds, lat, lon) ==
    /\ bounds.lat_min < lat /\ lat < bounds.lat_max
    /\ bounds.lon_min < lon /\ lon < bounds.lon_max

\* lat_min <= lat <= lat_max and lon_min <= lon <= lon_max
InBounds(bounds, lat, lon) ==
    /\ bounds.lat_min <= lat /\ lat <= bounds.lat_max
    /\ bounds.lon_min <= lon /\ lon <= bounds.lon_max

\* Mutant: a point in no zone of its district gets no zone.
first_zone_none(zones) == None

\* list(district['zones'].values())[0] if district['zones'] else None
first_zone(zones) == IF zones # << >> THEN Some(zones[1].id) ELSE None

\* for zone_key, zone in district['zones'].items(): the first zone from
\* position i on that holds the point, else the first zone of the district.
RECURSIVE ZoneLoop(_, _, _, _)
ZoneLoop(zones, i, lat, lon) ==
    IF i > Len(zones) THEN first_zone(zones)
    ELSE IF InBounds(zones[i].bounds, lat, lon) THEN Some(zones[i].id)
    ELSE ZoneLoop(zones, i + 1, lat, lon)

\* for district_name, district in DISTRICTS.items(): the first district from
\* position i on that holds the point, with its zone; else (None, None).
RECURSIVE DistrictLoop(_, _, _)
DistrictLoop(i, lat, lon) ==
    IF i > Len(DISTRICTS) THEN [district |-> None, zone |-> None]
    ELSE IF InBounds(DISTRICTS[i].bounds, lat, lon)
         THEN [district |-> Some(DISTRICTS[i].name),
               zone |-> ZoneLoop(DISTRICTS[i].zones, 1, lat, lon)]
    ELSE DistrictLoop(i + 1, lat, lon)

assign_to_district_and_zone(lat, lon) == DistrictLoop(1, lat, lon)

ZoneIdle == [pc |-> "idle", lat |-> 0, lon |-> 0, district |-> None, zone |-> None]

\* A call of assign_to_district_and_zone(lat, lon) and what it returned.
AssignToDistrictAndZone(lat, lon) ==
    /\ zone.pc = "idle"
    /\ LET r == assign_to_district_and_zone(lat, lon)
       IN  zone' = [pc |-> "returned", lat |-> lat, lon |-> lon,
                    district |-> r.district, zone |-> r.zone]
    /\ UNCHANGED <<registry, message_count, command_client, sleep_default,
                   ingest, delivered, req, now, registered,
                   alerts, config, connects, mqtt, cursor, purge, peer>>

ZonesNext == \E lat \in Lats, lon \in Lons : AssignToDistrictAndZone(lat, lon)

\* ------------------------------------------------- a second request thread
\* sleep_bin(bin_id) served on another thread than the operation of req.
\* wake_published records whether the operation of req had published when
\* this one did (a history value).
PeerIdle ==
    [pc |-> "idle", bin_id |-> "", rc |-> "none", result |-> "none",
     wake_published |-> FALSE]

PeerUnchanged ==
    UNCHANGED <<telemetry, message_count, sleep_default, ingest, delivered,
                req, now, registered, alerts, config, mqtt, zone, cursor, purge>>

\* sleep_bin(bin_id), lines 171-177, called once on the second thread.
PeerSleepBin(bin_id) ==
    /\ peer.pc = "idle"
    /\ peer.result = "none"
    /\ bins' = sleep_bin_update(bins, bin_id)
    /\ peer' = [peer EXCEPT !.pc = "send_command", !.bin_id = bin_id]
    /\ UNCHANGED <<commands_log, command_client, connects>>
    /\ PeerUnchanged

\* send_command, line 120, on the second thread: init_command_client().
PeerInitCommandClient ==
    /\ peer.pc = "send_command"
    /\ command_client = "None"
    /\ \E o \in InitOutcomes(config) :
          /\ connects' = IF o = "no_ca_cert" THEN connects
                         ELSE connects \cup { <<"command", TlsSet(config)>> }
          /\ IF o = "connected"
             THEN /\ command_client' = "connected"
                  /\ peer' = peer
             ELSE /\ command_client' = "created"
                  /\ peer' = [peer EXCEPT !.pc = "idle", !.result = "raised"]
    /\ UNCHANGED <<bins, commands_log>>
    /\ PeerUnchanged

\* send_command, lines 122-136 and 144-146, on the second thread.
PeerPublish ==
    /\ peer.pc = "send_command"
    /\ command_client # "None"
    /\ \E o \in PublishOutcomes(command_client) :
          LET r == [peer EXCEPT !.rc = o, !.wake_published = req.pubs # << >>]
          IN  peer' = IF o = "raises" THEN [r EXCEPT !.pc = "idle", !.result = "false"]
                      ELSE [r EXCEPT !.pc = "log_command"]
    /\ UNCHANGED <<bins, commands_log, command_client, connects>>
    /\ PeerUnchanged

\* send_command, lines 139-142, on the second thread.
PeerLogCommand ==
    /\ peer.pc = "log_command"
    /\ commands_log' =
          log_command(commands_log, peer.bin_id, "sleep",
                      [command |-> "sleep", timestamp |-> now, params |-> {}])
    /\ peer' = [peer EXCEPT !.pc = "idle", !.result = ResultOf(peer.rc)]
    /\ UNCHANGED <<bins, command_client, connects>>
    /\ PeerUnchanged

\* db.log_command raises on the second thread.
PeerLogCommandRaises ==
    /\ peer.pc = "log_command"
    /\ peer' = [peer EXCEPT !.pc = "idle", !.result = "false", !.rc = "log_raised"]
    /\ UNCHANGED <<bins, commands_log, command_client, connects>>
    /\ PeerUnchanged

\* wake_up_bin on one thread and sleep_bin on another, on a registered bin.
RaceNext ==
    \/ now = 0 /\ peer = PeerIdle /\ RegisterDevice("B1", "U1")
    \/ \E b \in BinIds, h \in Hours : WakeUpBin(b, h)
    \/ InitCommandClient
    \/ Publish
    \/ LogCommand
    \/ LogCommandRaises
    \/ \E b \in BinIds : PeerSleepBin(b)
    \/ PeerInitCommandClient
    \/ PeerPublish
    \/ PeerLogCommand
    \/ PeerLogCommandRaises

\* ------------------------------------------------------------ delete_bin
\* One call of db.delete_bin(bin_id): four DELETE statements in one
\* transaction.  A statement removes the rows that were committed when it
\* ran, and the removal shows to the other connections at the commit;
\* telemetry0, alerts0 and commands0 are the lengths of the three tables
\* when their statement ran (the tables only grow at the end).
PurgeIdle ==
    [pc |-> "idle", bin_id |-> "", telemetry0 |-> 0, alerts0 |-> 0,
     commands0 |-> 0, result |-> "none", calls |-> 0]

\* DELETE FROM <table> WHERE bin_id = %s, for a statement that saw the first
\* seen rows of the table.
RECURSIVE delete_where(_, _, _)
delete_where(t, seen, bin_id) ==
    IF t = << >> THEN << >>
    ELSE IF seen >= 1 /\ Head(t).bin_id = bin_id
         THEN delete_where(Tail(t), seen - 1, bin_id)
    ELSE << Head(t) >> \o delete_where(Tail(t), seen - 1, bin_id)

\* DELETE FROM bins WHERE bin_id = %s
delete_bin_row(t, bin_id) == [b \in DOMAIN t \ {bin_id} |-> t[b]]

PurgeUnchanged ==
    UNCHANGED <<registry, message_count, command_client, sleep_default,
                ingest, delivered, req, now, registered,
                alerts, config, connects, mqtt, zone, cursor, peer>>

\* delete_bin(bin_id), lines 298-304: the call and its first statement,
\* DELETE FROM telemetry.  The purge is requested while no other request
\* is being served.
DeleteBin(bin_id) ==
    /\ purge.pc = "idle"
    /\ purge.calls < MaxPurges
    /\ req.pc = "idle"
    /\ cursor.pc = "idle"
    /\ purge' = [purge EXCEPT !.pc = "delete_alerts", !.bin_id = bin_id,
                              !.telemetry0 = Len(telemetry), !.alerts0 = 0,
                              !.commands0 = 0, !.result = "none",
                              !.calls = @ + 1]
    /\ PurgeUnchanged

\* delete_bin, line 305: DELETE FROM alerts.
DeleteAlerts ==
    /\ purge.pc = "delete_alerts"
    /\ purge' = [purge EXCEPT !.pc = "delete_commands", !.alerts0 = Len(alerts)]
    /\ PurgeUnchanged

\* delete_bin, line 306: DELETE FROM commands_log.
DeleteCommands ==
    /\ purge.pc = "delete_commands"
    /\ purge' = [purge EXCEPT !.pc = "delete_bin_row",
                              !.commands0 = Len(commands_log)]
    /\ PurgeUnchanged

\* delete_bin, lines 307-309: DELETE FROM bins ... RETURNING bin_id, the
\* result, and the commit of get_cursor on the way out.  From the DELETE to
\* the commit the row is locked, and a statement of another connection on
\* it waits for the commit: the two are one step.
DeleteBinRow ==
    /\ purge.pc = "delete_bin_row"
    /\ telemetry' = delete_where(telemetry, purge.telemetry0, purge.bin_id)
    /\ alerts' = delete_where(alerts, purge.alerts0, purge.bin_id)
    /\ commands_log' = delete_where(commands_log, purge.commands0, purge.bin_id)
    /\ bins' = delete_bin_row(bins, purge.bin_id)
    /\ purge' = [purge EXCEPT !.pc = "idle",
                              !.result = IF purge.bin_id \in DOMAIN bins
                                         THEN "true" ELSE "false"]
    /\ UNCHANGED <<message_count, command_client, sleep_default,
                   ingest, delivered, req, now, registered,
                   config, connects, mqtt, zone, cursor, peer>>

\* A statement of delete_bin raises: get_cursor rolls the transaction back
\* and delete_bin raises.
DeleteBinRaises ==
    /\ purge.pc \in {"delete_alerts", "delete_commands", "delete_bin_row"}
    /\ purge' = [purge EXCEPT !.pc = "idle", !.result = "raised"]
    /\ PurgeUnchanged

\* The reports of bin B1 the purge runs beside: one plain, one of an
\* emptied bin.
PurgeMessages ==
    { [topic |-> <<"cleanroute", "bins", "B1", "telemetry">>, decodable |-> TRUE,
       payload |-> [BasePayload EXCEPT !.emptied = e]] : e \in {None, Some(1)} }

\* Before the purge is requested, and with bin B1 in the registry.
BeforePurge == purge.calls = 0 /\ "B1" \in DOMAIN bins

\* on_message beside delete_bin.  Before the purge, a command is logged and
\* an alert is created for the bin, so that it has dependents of each kind.
PurgeNext ==
    \/ \E m \in PurgeMessages : OnMessage(m)
    \/ UpsertBinStep
    \/ UpdateStatusStep
    \/ UpdateEmptiedStep
    \/ InsertTelemetryStep
    \/ PersistenceError
    \/ \E b \in BinIds : DeleteBin(b)
    \/ DeleteAlerts
    \/ DeleteCommands
    \/ DeleteBinRow
    \/ DeleteBinRaises
    \/ BeforePurge /\ RequestStatus("B1")
    \/ InitCommandClient
    \/ Publish
    \/ LogCommand
    \/ LogCommandRaises
    \/ BeforePurge /\ GetCursor("create_alert")
    \/ GetConnection
    \/ CreateCursor
    \/ Body
    \/ Commit
    \/ Finally

\* A report of an emptied bin B1 that carries a position.
FullReport ==
    [topic |-> <<"cleanroute", "bins", "B1", "telemetry">>, decodable |-> TRUE,
     payload |-> [BasePayload EXCEPT !.emptied = Some(1), !.lat = Some(7),
                                     !.lon = Some(80)]]

\* The writers of the Bin rows, on bin B1: the ingestion worker,
\* registration, the dispatcher and the orchestrators (which run the two
\* broadcasts).  They take turns: a message is handled while no request is
\* being served, and a request is made while on_message is not running.  A
\* registry call that raises writes nothing, and is left out here.
NoRequest == req.pc = "idle"

WritersNext ==
    \/ NoRequest /\ OnMessage(FullReport)
    \/ UpsertBinStep
    \/ UpdateStatusStep
    \/ UpdateEmptiedStep
    \/ InsertTelemetryStep
    \/ HandlerIdle /\ RegisterDevice("B1", "U1")
    \/ HandlerIdle /\ WakeUpBin("B1", 12)
    \/ HandlerIdle /\ SleepBin("B1")
    \/ HandlerIdle /\ DirectSend("B1", None, 0, FALSE)
    \/ HandlerIdle /\ StartCollectionDay(12)
    \/ HandlerIdle /\ EndCollectionDay
    \/ InitCommandClient
    \/ Publish
    \/ LogCommand
    \/ SelectBins
    \/ CreateAlert
    \/ ReturnStartCollectionDay

\* What can write device_status or remove a Bin, on bin B1: the ingestion
\* worker, registration, an orchestrator with the dispatcher under it, and
\* the purge, taking turns.
StatusNext ==
    \/ NoRequest /\ purge.pc = "idle" /\ OnMessage(FullReport)
    \/ UpsertBinStep
    \/ UpdateStatusStep
    \/ UpdateEmptiedStep
    \/ InsertTelemetryStep
    \/ HandlerIdle /\ purge.pc = "idle" /\ RegisterDevice("B1", "U1")
    \/ HandlerIdle /\ purge.pc = "idle" /\ EndCollectionDay
    \/ InitCommandClient
    \/ Publish
    \/ LogCommand
    \/ HandlerIdle /\ DeleteBin("B1")
    \/ DeleteAlerts
    \/ DeleteCommands
    \/ DeleteBinRow

\* What the counter is checked on: a report that is stored, one whose
\* fill_pct is out of range, and a payload that cannot be decoded.
CounterMessages ==
    { FullReport,
      [FullReport EXCEPT !.payload.fill_pct = Some(101)],
      [topic |-> <<"cleanroute", "bins", "B1", "telemetry">>, decodable |-> FALSE,
       payload |-> NoPayload] }

\* The ingestion worker and a reader of the status surface.
CounterNext ==
    \/ \E m \in CounterMessages : OnMessage(m)
    \/ UpsertBinStep
    \/ UpdateStatusStep
    \/ UpdateEmptiedStep
    \/ InsertTelemetryStep
    \/ PersistenceError
    \/ GetIngestStatus

\* Reports that name the broadcast sentinel as their bin, in the payload or
\* in the topic (the subscription cleanroute/bins/+/telemetry matches it),
\* and a plain report of bin B1.
SentinelMessages ==
    { [topic |-> <<"cleanroute", "bins", "B1", "telemetry">>, decodable |-> TRUE,
       payload |-> [BasePayload EXCEPT !.bin_id = Some(BroadcastId)]],
      [topic |-> <<"cleanroute", "bins", BroadcastId, "telemetry">>, decodable |-> TRUE,
       payload |-> [BasePayload EXCEPT !.bin_id = None]],
      [topic |-> <<"cleanroute", "bins", "B1", "telemetry">>, decodable |-> TRUE,
       payload |-> BasePayload] }

\* Ingestion and registration under any bin id, and wake_up_bin and
\* sleep_bin for the Bins that exist, taking turns.
SentinelNext ==
    \/ \E m \in SentinelMessages : NoRequest /\ OnMessage(m)
    \/ UpsertBinStep
    \/ UpdateStatusStep
    \/ InsertTelemetryStep
    \/ \E b \in {"B1", BroadcastId} : HandlerIdle /\ RegisterDevice(b, "U1")
    \/ \E b \in DOMAIN bins : HandlerIdle /\ WakeUpBin(b, 12)
    \/ \E b \in DOMAIN bins : HandlerIdle /\ SleepBin(b)
    \/ InitCommandClient
    \/ Publish
    \/ LogCommand

\* The four operations that change a Bin's lifecycle flags, with
\* registrations around them.
LifecycleNext ==
    \/ \E b \in BinIds, h \in Hours : WakeUpBin(b, h)
    \/ \E b \in BinIds : SleepBin(b)
    \/ \E h \in Hours : BroadcastWakeUp(h)
    \/ BroadcastSleep
    \/ \E b \in BinIds, op \in {"wake_up_bin", "sleep_bin"} : UpdateRaises(op, b, 12)
    \/ \E op \in {"broadcast_wake_up", "broadcast_sleep"} :
          UpdateRaises(op, BroadcastId, 12)
    \/ InitCommandClient
    \/ Publish
    \/ LogCommand
    \/ LogCommandRaises
    \/ \E b \in BinIds, u \in Users : RegisterDevice(b, u)

Next ==
    IngestNext \/ DispatchNext \/ CollectionNext \/ ServiceNext \/ CommandsNext
        \/ ZonesNext \/ CursorNext

Init ==
    /\ bins = << >>
    /\ telemetry = << >>
    /\ commands_log = << >>
    /\ message_count = 0
    /\ command_client = "None"
    /\ sleep_default \in BOOLEAN
    /\ ingest = IngestIdle
    /\ delivered = 0
    /\ req = ReqIdle
    /\ now = 0
    /\ registered = 0
    /\ alerts = << >>
    /\ config \in Configs
    /\ connects = {}
    /\ mqtt = MqttIdle
    /\ zone = ZoneIdle
    /\ cursor = CursorIdle
    /\ purge = PurgeIdle
    /\ peer = PeerIdle

\* Plain mode.  on_message reads no configuration, so one configuration
\* stands for all of them.
InitPlain == Init /\ ~config.use_tls
\* Secure mode, with and without the CA certificate.  Plain mode takes the
\* same steps as secure mode with the certificate in place, but for the TLS
\* flag of connects.
InitSecure == Init /\ config.use_tls

\* The ingestion worker and the request path side by side.  The two write
\* disjoint columns of bins (lat, lon, last_seen, device_status, last_emptied
\* against sleep_mode, last_wake_command, user_id) and disjoint tables, so
\* each is also checked on its own below, where the full input sets fit.
Spec == Init /\ [][Next]_vars
\* The ingestion worker alone.
SpecIngest == InitPlain /\ [][IngestNext]_vars
\* The request path alone.
SpecDispatch == Init /\ [][DispatchNext]_vars
\* The lifecycle operations of the request path.
SpecLifecycle == Init /\ [][LifecycleNext]_vars
\* The collection-day orchestrators.
SpecCollection == InitSecure /\ [][CollectionNext]_vars
\* The ingest service from start to stop.
SpecService == Init /\ [][ServiceNext]_vars
\* Every publishing operation.
SpecCommands == Init /\ [][CommandsNext]_vars
\* The blocks of get_cursor.
SpecCursor == Init /\ [][CursorNext]_vars
\* The zone resolver on every input.
SpecZones == Init /\ [][ZonesNext]_vars
\* The writers of the Bin rows, taking turns.
SpecWriters == InitPlain /\ [][WritersNext]_vars
\* The writers of device_status and the purge.
SpecStatus == InitPlain /\ [][StatusNext]_vars
\* The processed-message counter.
SpecCounter == Init /\ [][CounterNext]_vars
\* The broadcast sentinel as a bin id.
SpecSentinel == InitPlain /\ [][SentinelNext]_vars
\* Two request threads.
SpecRace == Init /\ [][RaceNext]_vars
\* The ingestion worker beside an admin purge.
SpecPurge == InitPlain /\ [][PurgeNext]_vars

\* ================================================================ claims
Returned == req.pc = "idle" /\ req.op # "none"
ReturnedValue == Returned /\ req.result \in {"true", "false"}
Dispatched == req.command_type # ""
LastRow == telemetry[Len(telemetry)]
HandlerDone == ingest.pc = "idle" /\ delivered > 0

\* C1: every call of send_command appends exactly one Command Log Entry,
\* whether the publish returned success, returned a failure code or raised
\* (stated for the calls whose log write itself did not fail).
C1_OneLogEntryPerDispatch ==
    (Returned /\ req.rc \in {"success", "failure", "raises"} /\ ~req.log_raised)
        => Len(commands_log) = req.logged0 + 1

\* C2: a message that is to be dropped (undecodable, no bin id, no ts, no
\* fill_pct, fill_pct outside [0,100], ts no date) never gets past
\* validation, and the step that handles it leaves bins, telemetry, the
\* command log and message_count as they were.
C2_RejectedChangesNothing ==
    /\ [](ingest.sent.drop =>
            /\ ingest.pc = "idle"
            /\ ingest.outcome \notin {"running", "stored", "error"})
    /\ [][(delivered' = delivered + 1 /\ ingest'.sent.drop) =>
            /\ bins' = bins
            /\ telemetry' = telemetry
            /\ commands_log' = commands_log
            /\ message_count' = message_count
            /\ ingest'.pc = "idle"]_vars

C2_Witness ==
    /\ HandlerDone
    /\ ingest.outcome = "fill_out_of_range"
    /\ "B1" \in DOMAIN bins
    /\ bins["B1"].device_status = "online"

\* C3: a message that passes validation and meets no persistence failure
\* is stored: its bin exists with last_seen the message's instant and
\* device_status online, exactly one telemetry row was appended, carrying
\* the message's fill_pct and emptied flag, and message_count grew by one.
C3_AcceptedIsStored ==
    (HandlerDone /\ ~ingest.sent.drop /\ ingest.outcome # "error") =>
        /\ ingest.outcome = "stored"
        /\ ingest.sent.bin_id \in DOMAIN bins
        /\ bins[ingest.sent.bin_id].last_seen = Some(ingest.sent.ts)
        /\ bins[ingest.sent.bin_id].device_status = "online"
        /\ Len(telemetry) = ingest.before.rows + 1
        /\ LastRow.bin_id = ingest.sent.bin_id
        /\ LastRow.ts = ingest.sent.ts
        /\ LastRow.fill_pct = ingest.sent.fill_pct
        /\ LastRow.emptied = ingest.sent.emptied
        /\ message_count = ingest.before.count + 1

C3_Witness ==
    /\ HandlerDone
    /\ ingest.outcome = "stored"
    /\ ~ingest.before.existed
    /\ ingest.sent.fill_pct = 100
    /\ ingest.sent.bin_id = "B1"

\* C4: a stored message with emptied=true sets the bin's last_emptied to the
\* message's instant and its telemetry row has emptied=true; a stored
\* message with emptied false or absent leaves last_emptied as it was.
C4_EmptiedSetsLastEmptied ==
    (HandlerDone /\ ingest.outcome = "stored") =>
        IF ingest.sent.emptied
        THEN /\ bins[ingest.sent.bin_id].last_emptied = Some(ingest.sent.ts)
             /\ LastRow.emptied
        ELSE /\ bins[ingest.sent.bin_id].last_emptied = ingest.before.last_emptied
             /\ ~LastRow.emptied

C4_Witness ==
    /\ HandlerDone
    /\ ingest.outcome = "stored"
    /\ ~ingest.sent.emptied
    /\ ingest.before.last_emptied = Some(10)
    /\ ingest.sent.ts = 9

\* C5: the handler never returns having set a bin online without having
\* appended the telemetry row of the same message: steps 8-11 are all or
\* nothing.
C5_OnlineImpliesTelemetry ==
    (/\ ingest.pc = "idle"
     /\ "update_device_status" \in ingest.applied
     /\ ingest.sent.bin_id \in DOMAIN bins
     /\ bins[ingest.sent.bin_id].device_status = "online")
        => /\ "insert_telemetry" \in ingest.applied
           /\ Len(telemetry) = ingest.before.rows + 1
           /\ LastRow.bin_id = ingest.sent.bin_id
           /\ LastRow.ts = ingest.sent.ts

\* C6: a persistence failure at any registry call of on_message ends the
\* handling of that message and nothing more: the failing step changes no
\* table and not the counter, the handler is back idle with no locals kept
\* and no exception raised to the network loop, and no later step of that
\* message runs; a message stored afterwards is stored in full.
C6_FailureIsContained ==
    /\ [](ingest.outcome # "raised")
    /\ [](ingest.outcome = "error" =>
            /\ ingest.pc = "idle"
            /\ ingest.cur = None
            /\ "insert_telemetry" \notin ingest.applied
            /\ Len(telemetry) = ingest.before.rows
            /\ message_count = ingest.before.count)
    /\ []((ingest.outcome = "stored" /\ ingest.errors = 1) =>
            /\ ingest.sent.bin_id \in DOMAIN bins
            /\ bins[ingest.sent.bin_id].last_seen = Some(ingest.sent.ts)
            /\ bins[ingest.sent.bin_id].device_status = "online"
            /\ Len(telemetry) = ingest.before.rows + 1
            /\ message_count = ingest.before.count + 1)
    /\ [][(ingest.pc \in DbSteps /\ ingest'.outcome = "error") =>
            /\ bins' = bins
            /\ telemetry' = telemetry
            /\ commands_log' = commands_log
            /\ message_count' = message_count]_vars

C6_Witness ==
    /\ HandlerDone
    /\ ingest.outcome = "stored"
    /\ ingest.errors = 1
    /\ Len(telemetry) = 1

\* What the registry update of the running lifecycle operation leaves in
\* the rows that existed when it was called.
UpdateInPlace ==
    CASE req.op = "wake_up_bin" ->
            req.bin_id \in req.existed0 =>
                /\ bins[req.bin_id].sleep_mode = FALSE
                /\ bins[req.bin_id].last_wake_command = Some(req.called_at)
      [] req.op = "sleep_bin" ->
            req.bin_id \in req.existed0 => bins[req.bin_id].sleep_mode = TRUE
      [] req.op = "broadcast_wake_up" ->
            \A b \in req.existed0 :
                /\ bins[b].sleep_mode = FALSE
                /\ bins[b].last_wake_command = Some(req.called_at)
      [] req.op = "broadcast_sleep" ->
            \A b \in req.existed0 : bins[b].sleep_mode = TRUE
      [] OTHER -> TRUE

\* C7: for wake_up_bin, sleep_bin, broadcast_wake_up and broadcast_sleep the
\* Bin update is in place from before the publish is attempted, and stays in
\* place after the operation has returned, whatever the publish did.
C7_UpdateBeforePublishNoRollback ==
    /\ (req.op \in LifecycleOps /\ Dispatched) => UpdateInPlace
    /\ (req.op \in LifecycleOps /\ req.pubs # << >>) => (req.updated /\ Dispatched)

C7_Witness ==
    /\ Returned
    /\ req.op = "wake_up_bin"
    /\ req.bin_id \in req.existed0
    /\ req.rc = "raises"
    /\ req.result = "false"
    /\ sleep_default

\* C8: after wake_up_bin(b) has returned for an existing bin b, sleep_mode is
\* false and last_wake_command is the time of the call; after sleep_bin(b)
\* has returned, sleep_mode is true and last_wake_command is what it was when
\* sleep_bin was called, so still the wake-up's value.
C8_WakeThenSleep ==
    (ReturnedValue /\ req.bin_id \in req.existed0) =>
        /\ req.op = "wake_up_bin" =>
              /\ bins[req.bin_id].sleep_mode = FALSE
              /\ bins[req.bin_id].last_wake_command = Some(req.called_at)
        /\ req.op = "sleep_bin" =>
              /\ bins[req.bin_id].sleep_mode = TRUE
              /\ bins[req.bin_id].last_wake_command = req.wake0

C8_Witness ==
    /\ ReturnedValue
    /\ req.op = "sleep_bin"
    /\ req.bin_id \in req.existed0
    /\ req.wake0 = Some(1)
    /\ req.called_at = 2

BroadcastTopic == <<"cleanroute", "bins", "broadcast", "command">>

\* C9: broadcast_wake_up(h) updates every Bin row at once and then publishes
\* once, on cleanroute/bins/broadcast/command, with params {collection_hours:
\* h, telemetry_interval_minutes: 60}; broadcast_sleep sets sleep_mode on
\* every row and publishes once on the same address; neither publishes to a
\* single bin, however many bins there are.
C9_BroadcastOnePublish ==
    (req.op \in {"broadcast_wake_up", "broadcast_sleep"}) =>
        /\ Len(req.pubs) <= 1
        /\ ReturnedValue => Len(req.pubs) = 1
        /\ \A i \in 1..Len(req.pubs) :
              /\ req.pubs[i].topic = BroadcastTopic
              /\ req.op = "broadcast_wake_up" =>
                    /\ req.pubs[i].command = "wake_up"
                    /\ req.pubs[i].params =
                          { <<"collection_hours", req.hours>>,
                            <<"telemetry_interval_minutes", 60>> }
              /\ req.op = "broadcast_sleep" => req.pubs[i].command = "sleep"
        /\ req.updated =>
              \A b \in req.existed0 :
                  IF req.op = "broadcast_wake_up"
                  THEN /\ bins[b].sleep_mode = FALSE
                       /\ bins[b].last_wake_command = Some(req.called_at)
                  ELSE bins[b].sleep_mode = TRUE

C9_Witness ==
    /\ ReturnedValue
    /\ req.op = "broadcast_wake_up"
    /\ req.hours = 6
    /\ req.existed0 = BinIds
    /\ Len(req.pubs) = 1

\* C10: send_command never raises: every error on its path comes back as
\* the value false.
C10_DispatchErrorsAreValues ==
    (Returned /\ Dispatched) => req.result # "raised"

\* -------------------------------------------------------- collection day
StartReturned ==
    Returned /\ req.caller = "start_collection_day" /\ req.result \in {"true", "false"}

\* The positions in alerts of the rows the running orchestrator has added.
NewAlerts == (req.alerts0 + 1)..Len(alerts)
AlertsFor(b) == { i \in NewAlerts : alerts[i].bin_id = b }

\* C11: when creating the alert of one owner's bin fails inside
\* start_collection_day, the alerts of the remaining owners are still created
\* and the operation still returns its result.
C11_AlertFailureDoesNotBlock ==
    (Returned /\ req.caller = "start_collection_day" /\ req.alert_raised) =>
        /\ req.result \in {"true", "false"}
        /\ \A i \in 2..Len(req.todo) : AlertsFor(req.todo[i]) # {}

\* What C12 says of the order and of the alerts, apart from the success flag.
BroadcastThenAlerts ==
    /\ (req.caller = "start_collection_day" /\ req.pc \in {"send_command", "log_command"})
          => (req.updated /\ Len(alerts) = req.alerts0)
    /\ (req.caller = "start_collection_day" /\ req.pc \in {"create_alert", "idle"}
           /\ NewAlerts # {})
          => (req.updated /\ Len(req.pubs) = 1)
    /\ StartReturned =>
          /\ \A b \in req.existed0 :
                Cardinality(AlertsFor(b)) = IF b \in req.owners0 THEN 1 ELSE 0
          /\ \A i \in NewAlerts :
                /\ alerts[i].bin_id \in req.owners0
                /\ alerts[i].alert_type = "collection_reminder"
                /\ alerts[i].severity = "info"
          /\ req.bins_notified = Cardinality(NewAlerts)

SecondRun ==
    /\ Returned
    /\ req.result \in {"true", "false"}
    /\ req.prev.caller = req.caller
    /\ req.prev.hours = req.hours
    /\ req.prev.result \in {"true", "false"}
    /\ req.prev.registered0 = req.registered0

\* C13: running start_collection_day(h) twice leaves the same Bin flags and
\* the same Alerts as running it once; running end_collection_day twice
\* leaves the same Bin flags as running it once.
C13_OrchestratorsIdempotent ==
    /\ (SecondRun /\ req.caller = "start_collection_day") =>
          /\ Len(alerts) = req.alerts0
          /\ \A b \in req.prev.existed0 \cap DOMAIN bins : ~bins[b].sleep_mode
    /\ (SecondRun /\ req.caller = "end_collection_day") =>
          \A b \in req.prev.existed0 \cap DOMAIN bins : bins[b].sleep_mode

\* ------------------------------------------------------------------ zones
\* Position p of a sequence of boxed things holds the point.
Holds(things, p, lat, lon) ==
    /\ lat \in things[p].bounds.lat_min..things[p].bounds.lat_max
    /\ lon \in things[p].bounds.lon_min..things[p].bounds.lon_max

\* The first position of things that holds the point, 0 when none does.
FirstHolding(things, lat, lon) ==
    IF \E p \in 1..Len(things) : Holds(things, p, lat, lon)
    THEN CHOOSE p \in 1..Len(things) :
            /\ Holds(things, p, lat, lon)
            /\ \A q \in 1..(p - 1) : ~Holds(things, q, lat, lon)
    ELSE 0

\* The reference resolver of the specification.
Reference(lat, lon) ==
    LET d == FirstHolding(DISTRICTS, lat, lon)
        z == IF d = 0 THEN 0 ELSE FirstHolding(DISTRICTS[d].zones, lat, lon)
    IN  IF d = 0 THEN [district |-> None, zone |-> None]
        ELSE [district |-> Some(DISTRICTS[d].name),
              zone |-> Some(DISTRICTS[d].zones[IF z = 0 THEN 1 ELSE z].id)]

ZoneReturned == zone.pc = "returned"

\* C14: for every point inside the bounding box of a declared district
\* (bounds inclusive), assign_to_district_and_zone returns a zone: never a
\* district with no zone.
C14_DistrictImpliesZone ==
    (ZoneReturned /\ FirstHolding(DISTRICTS, zone.lat, zone.lon) # 0) =>
        /\ zone.district # None
        /\ zone.zone # None

\* A point on the corner of Colombo's box that lies in none of its zones.
C14_Witness ==
    /\ ZoneReturned
    /\ zone.lat = 6830
    /\ zone.lon = 79820
    /\ zone.district = Some("Colombo")
    /\ zone.zone = Some("colombo_zone1")

\* C15: assign_to_district_and_zone(lat, lon) is the reference resolver: the
\* first district in declaration order whose box holds the point, with the
\* first of its zones whose box holds the point or else its first declared
\* zone, and (none, none) exactly when no district holds the point; the
\* result is a function of the point, the zone is one of the district's;
\* (6.93, 79.85) gives (Colombo, zone1) and (6.90, 79.70) gives (none, none).
C15_MatchesReference ==
    ZoneReturned =>
        /\ [district |-> zone.district, zone |-> zone.zone]
              = Reference(zone.lat, zone.lon)
        /\ (zone.district = None) <=> (FirstHolding(DISTRICTS, zone.lat, zone.lon) = 0)
        /\ zone.district = None => zone.zone = None
        /\ zone.district # None =>
              \E i \in 1..Len(DISTRICTS) :
                  /\ DISTRICTS[i].name = Val(zone.district)
                  /\ \E j \in 1..Len(DISTRICTS[i].zones) :
                        zone.zone = Some(DISTRICTS[i].zones[j].id)
        /\ (zone.lat = 6930 /\ zone.lon = 79850) =>
              (zone.district = Some("Colombo") /\ zone.zone = Some("colombo_zone1"))
        /\ (zone.lat = 6900 /\ zone.lon = 79700) =>
              (zone.district = None /\ zone.zone = None)

\* A point on the shared edge of two zones: the first declared one wins.
C15_Witness ==
    /\ ZoneReturned
    /\ zone.lat = 6925
    /\ zone.lon = 79850
    /\ zone.zone = Some("colombo_zone1")

\* ------------------------------------------------------ delivery guarantee
\* C16: every command published by a dispatcher or orchestrator operation
\* that passes no delivery guarantee of its own (every operation but a direct
\* send_command with explicit qos and retain) is published with QoS 1 and
\* retain off; none of them publishes a retained command.
C16_DefaultDelivery ==
    (req.op # "send_command") =>
        \A i \in 1..Len(req.pubs) :
            /\ req.pubs[i].qos = 1
            /\ req.pubs[i].retain = FALSE

C16_Witness ==
    /\ Returned
    /\ req.caller = "end_collection_day"
    /\ Len(req.pubs) = 1
    /\ req.pubs[1].outcome = "success"
    /\ req.pubs[1].qos = 1
    /\ ~req.pubs[1].retain

\* ------------------------------------------------------ the ingest service
\* C17: a connection failure at startup is fatal: when connect() fails, or
\* when the broker refuses the connection in its CONNACK, start_mqtt_ingest
\* has not completed as a started service; the service is never reported
\* started while the broker has refused it.
C17_StartupFailureIsFatal ==
    /\ mqtt.start = "raised" => ~mqtt.started
    /\ mqtt.started => mqtt.link # "refused"

SecureWithoutCa == config.use_tls /\ ~config.ca_cert

\* C18: in secure mode with the CA certificate missing, start_mqtt_ingest and
\* init_command_client both raise before any connect() call, and nothing
\* later connects or gets a command onto the wire: no connection exists, no
\* publish succeeds.  In secure mode every connect() is made with TLS set.
C18_NoInsecureFallback ==
    /\ SecureWithoutCa =>
          /\ connects = {}
          /\ mqtt.start # "returned"
          /\ ~mqtt.started
          /\ ~mqtt.loop
          /\ mqtt.link = "none"
          /\ command_client # "connected"
          /\ \A i \in 1..Len(req.pubs) : req.pubs[i].outcome # "success"
          /\ (Returned /\ Dispatched) => req.result # "true"
    /\ config.use_tls => \A c \in connects : c[2]

\* Both have raised, and a later send_command has published on the handle
\* that never connected.
C18_Witness ==
    /\ SecureWithoutCa
    /\ mqtt.start = "raised"
    /\ command_client = "created"
    /\ now = 2
    /\ Returned
    /\ req.result = "false"
    /\ Len(req.pubs) = 1

\* C19: stop_mqtt_ingest halts the network loop before it releases the
\* connection; a handler in flight when it is called runs to completion (the
\* loop is never halted under a running handler, and a handler ends only by
\* storing or by its own error path); and once stop_mqtt_ingest has returned
\* no handler begins or runs.
C19_StopIsOrderly ==
    /\ [](mqtt.stop = "disconnect" => ~mqtt.loop)
    /\ [](mqtt.link = "released" => ~mqtt.loop)
    /\ [](mqtt.stop = "returned" => (~mqtt.loop /\ ingest.pc = "idle"))
    /\ [][(mqtt.loop /\ ~mqtt'.loop) => (ingest.pc = "idle" /\ ingest' = ingest)]_vars
    /\ [][(ingest.pc # "idle" /\ ingest'.pc = "idle")
            => ingest'.outcome \in {"stored", "error"}]_vars
    /\ [][mqtt.stop = "returned" => (delivered' = delivered /\ ingest' = ingest)]_vars

C19_Witness ==
    /\ mqtt.stop = "returned"
    /\ mqtt.inflight
    /\ mqtt.link = "released"
    /\ ingest.outcome = "stored"
    /\ Len(telemetry) = delivered

\* ------------------------------------------------------------- get_cursor
BlockEnded == cursor.pc = "idle" /\ cursor.op # "none"

\* C20: every registry operation releases its connection on every exit path,
\* also when a statement, the commit or the creation of the cursor fails; and
\* an operation that failed has rolled back, not committed.
C20_ConnectionReleased ==
    BlockEnded =>
        /\ cursor.open = 0
        /\ cursor.curs = 0
        /\ cursor.raised =>
              /\ cursor.tx \in {"none", "rolled_back"}
              /\ Len(alerts) = cursor.alerts0

\* C21: under every interleaving of on_message for a bin with delete_bin for
\* the same bin, once both have completed every Telemetry Record, Alert and
\* Command Log Entry references a Bin that exists.
PurgeDone == purge.pc = "idle" /\ purge.result \in {"true", "false"}

AllReference(t) == \A i \in 1..Len(t) : t[i].bin_id \in DOMAIN bins

C21_PurgeCascades ==
    (PurgeDone /\ ingest.pc = "idle") =>
        /\ AllReference(telemetry)
        /\ AllReference(alerts)
        /\ AllReference(commands_log)

\* C22: the bin upsert is unconditional.  Once the upsert of an accepted
\* message has run, the bin's last_seen is that message's instant, also when
\* it is earlier than the last_seen before, and the bin's position is the
\* message's, none when the message carries none.
C22_UpsertUnconditional ==
    (HandlerDone /\ "upsert_bin" \in ingest.applied) =>
        /\ ingest.sent.bin_id \in DOMAIN bins
        /\ bins[ingest.sent.bin_id].last_seen = Some(ingest.sent.ts)
        /\ bins[ingest.sent.bin_id].lat = ingest.sent.lat
        /\ bins[ingest.sent.bin_id].lon = ingest.sent.lon

\* A report of 10:00 with a position was stored, then one of 09:00 without.
C22_Witness ==
    /\ HandlerDone
    /\ ingest.outcome = "stored"
    /\ Len(telemetry) = 2
    /\ telemetry[1].bin_id = "B2" /\ telemetry[2].bin_id = "B2"
    /\ telemetry[1].ts = 10 /\ telemetry[1].lat = Some(7)
    /\ telemetry[2].ts = 9 /\ telemetry[2].lat = None
    /\ bins["B2"].last_seen = Some(9)
    /\ bins["B2"].lat = None

\* C23: the effective bin id of a message is the payload's bin_id when that
\* is present and not empty, also when the topic names another bin;
\* otherwise it is the third segment of the topic.  A decodable message is
\* rejected for its bin id exactly when both are absent or empty.  Every
\* registry write of the handler is keyed by the effective id: no other
\* Bin is created or changed, and the telemetry row carries it.
PayloadNames == ingest.msg.bin_id # None /\ ingest.msg.bin_id # Some("")
TopicNames == Len(ingest.msg.topic) >= 3 /\ ingest.msg.topic[3] # ""
EffectiveId == IF PayloadNames THEN ingest.msg.bin_id[1] ELSE ingest.msg.topic[3]

C23_EffectiveBinId ==
    /\ []((HandlerDone /\ ingest.msg.decodable) =>
            (ingest.outcome = "no_bin_id" <=> (~PayloadNames /\ ~TopicNames)))
    /\ [][ingest.pc # "idle" =>
            /\ DOMAIN bins' \subseteq DOMAIN bins \cup {EffectiveId}
            /\ \A b \in DOMAIN bins \ {EffectiveId} :
                  b \in DOMAIN bins' /\ bins'[b] = bins[b]
            /\ telemetry' # telemetry =>
                  /\ Len(telemetry') = Len(telemetry) + 1
                  /\ SubSeq(telemetry', 1, Len(telemetry)) = telemetry
                  /\ telemetry'[Len(telemetry')].bin_id = EffectiveId]_vars

\* A report that names B2 in its payload arrived on the topic of B1, after B1
\* had reported: it is stored under B2, and B1 is as it was.
C23_Witness ==
    /\ HandlerDone
    /\ ingest.outcome = "stored"
    /\ ingest.msg.bin_id = Some("B2")
    /\ TopicNames
    /\ ingest.msg.topic[3] = "B1"
    /\ Len(telemetry) = 2
    /\ telemetry[1].bin_id = "B1"
    /\ telemetry[2].bin_id = "B2"
    /\ bins["B1"].last_seen = Some(10)
    /\ bins["B2"].last_seen = Some(9)

\* C24: intended and confirmed state are kept apart.  No step of the
\* ingestion handler changes a Bin's sleep_mode, last_wake_command or owner;
\* no step of a dispatcher or orchestrator operation changes a Bin's
\* device_status, last_seen, last_emptied or position, creates or removes a
\* Bin, or changes the telemetry table.
HandlerStep == ingest' # ingest
RequestStep == req' # req

C24_IntendedApartFromConfirmed ==
    [][/\ HandlerStep =>
            \A b \in DOMAIN bins :
                /\ b \in DOMAIN bins'
                /\ bins'[b].sleep_mode = bins[b].sleep_mode
                /\ bins'[b].last_wake_command = bins[b].last_wake_command
                /\ bins'[b].user_id = bins[b].user_id
       /\ RequestStep =>
            /\ telemetry' = telemetry
            /\ DOMAIN bins' = DOMAIN bins
            /\ \A b \in DOMAIN bins :
                  /\ bins'[b].device_status = bins[b].device_status
                  /\ bins'[b].last_seen = bins[b].last_seen
                  /\ bins'[b].last_emptied = bins[b].last_emptied
                  /\ bins'[b].lat = bins[b].lat
                  /\ bins'[b].lon = bins[b].lon]_vars

\* Bin B1 was registered and woken, its report was stored, and the bins were
\* put to sleep after that: the row holds what each side wrote.
C24_Witness ==
    /\ HandlerDone
    /\ ingest.outcome = "stored"
    /\ Returned
    /\ req.op = "broadcast_sleep"
    /\ "B1" \in DOMAIN bins
    /\ bins["B1"].device_status = "online"
    /\ bins["B1"].last_emptied = Some(10)
    /\ bins["B1"].lat = Some(7)
    /\ bins["B1"].sleep_mode
    /\ bins["B1"].last_wake_command = Some(1)
    /\ bins["B1"].user_id = Some("U1")

\* C25: wake_up_bin(b) and sleep_bin(b) run at the same time.  Once both
\* have returned, having published and logged their command, the Bin's
\* sleep_mode agrees with the command that was published and logged last:
\* false after wake_up, true after sleep.
BothReturned ==
    /\ now = 1
    /\ Returned
    /\ req.op = "wake_up_bin"
    /\ req.rc \in {"success", "failure"}
    /\ ~req.log_raised
    /\ peer.pc = "idle"
    /\ peer.rc \in {"success", "failure"}
    /\ peer.bin_id = req.bin_id
    /\ req.bin_id \in DOMAIN bins
    /\ Len(commands_log) = 2

LastCommand ==
    IF peer.wake_published /\ commands_log[2].command_type = "sleep" THEN "sleep"
    ELSE IF ~peer.wake_published /\ commands_log[2].command_type = "wake_up"
         THEN "wake_up"
    ELSE "none"

C25_LastCommandWins ==
    BothReturned =>
        /\ LastCommand = "sleep" => bins[req.bin_id].sleep_mode
        /\ LastCommand = "wake_up" => ~bins[req.bin_id].sleep_mode

\* C26: device_status is monotone.  A Bin that is online stays online at
\* every step of the ingestion handler, of register_device, of the dispatcher
\* and of the orchestrators; it ceases to be online only by ceasing to
\* exist, which only the commit of delete_bin for that bin brings about.
PurgeCommits(b) == purge.pc = "delete_bin_row" /\ purge.bin_id = b /\ purge'.pc = "idle"

C26_OnlineIsMonotone ==
    [][\A b \in DOMAIN bins :
          bins[b].device_status = "online" =>
              IF b \in DOMAIN bins' THEN bins'[b].device_status = "online"
              ELSE PurgeCommits(b)]_vars

\* Bin B1 went online, was then registered and put to sleep, and is online.
C26_Witness ==
    /\ "B1" \in DOMAIN bins
    /\ bins["B1"].device_status = "online"
    /\ bins["B1"].user_id = Some("U1")
    /\ bins["B1"].sleep_mode
    /\ Returned
    /\ req.caller = "end_collection_day"
    /\ Len(telemetry) = 1
    /\ registered = 1

\* C27: the processed-message counter never decreases and equals the
\* number of telemetry rows the handler has appended since start.  It grows
\* by one exactly at the step that appends a row; a rejected message and a
\* message aborted on a persistence failure leave it as it was; reading the
\* status returns the counter and changes nothing of the program's state.
StatusRead == mqtt'.status # mqtt.status

C27_CounterCountsStored ==
    /\ [](message_count = Len(telemetry))
    /\ []((HandlerDone /\ ingest.outcome # "stored") =>
            message_count = ingest.before.count)
    /\ [][/\ message_count' >= message_count
          /\ message_count' = message_count + 1 <=> Len(telemetry') = Len(telemetry) + 1
          /\ message_count' # message_count => message_count' = message_count + 1
          /\ StatusRead =>
                /\ mqtt'.status[1].messages_processed = message_count
                /\ mqtt' = [mqtt EXCEPT !.status = mqtt'.status]
                /\ UNCHANGED <<registry, message_count, command_client, ingest,
                               delivered, req, alerts, config, connects>>]_vars

\* One report was stored and a second one was aborted after its upsert; the
\* status read after that says one message was processed.
C27_Witness ==
    /\ HandlerDone
    /\ delivered = 2
    /\ ingest.outcome = "error"
    /\ "upsert_bin" \in ingest.applied
    /\ message_count = 1
    /\ mqtt.status # << >>
    /\ mqtt.status[1].messages_processed = 1

\* C28: the command client handle is set only when init_command_client
\* completed.  After a failed initialization the handle is None again, and
\* no command is published on a client that never connected.
C28_HandleOnlyWhenInitialized ==
    /\ command_client \in {"None", "connected"}
    /\ \A i \in 1..Len(req.pubs) : <<"command", TlsSet(config)>> \in connects

\* C29: the broadcast sentinel is reserved.  No Bin with the id 'broadcast'
\* comes to exist through ingestion or registration, and wake_up_bin and
\* sleep_bin for an existing Bin never publish on the broadcast address.
C29_SentinelReserved ==
    /\ BroadcastId \notin DOMAIN bins
    /\ req.op \in {"wake_up_bin", "sleep_bin"} =>
          \A i \in 1..Len(req.pubs) : req.pubs[i].topic # CommandTopic(BroadcastId)

====
